---- MODULE Spec2Model ----
(***************************************************************************)
(* apollo-datasource-typeorm: the cached, batched access layer of          *)
(* TypeormDataSource (datasource.ts) and createCachingMethods (cache.ts).  *)
(*                                                                         *)
(* State: the TypeORM table of one entity (store), the DataLoader memo     *)
(* (memo) and its pending batch (batch), the KeyValueCache (cache), the    *)
(* calls in flight (proc) and the primeLoader calls nobody awaits (bg).    *)
(*                                                                         *)
(* Every awaited store or cache call is one atomic step; the code that     *)
(* runs after the await is the next step of the same call, so other calls  *)
(* interleave exactly at the awaits, as on the Node.js event loop.         *)
(***************************************************************************)
EXTENDS Integers, Sequences, FiniteSets, TLC

(* ------------------------------ bounds -------------------------------- *)
\* number of calls made to the data source in one behaviour
MaxOps == 3
\* length K of the identifier lists passed to findManyByIds
MaxIds == 2

(* ------------------------------ domains ------------------------------- *)
\* primary keys of the table, in the order the database returns rows
Ids == {1, 2}
IdOrder == <<1, 2>>
\* values of the one data column (email / name in the tests)
Vals == {"a", "b"}
\* deletedAt: null or a Date; a Date is given by its time value in
\* milliseconds since the epoch
NullDate == [null |-> TRUE]
DateOf(t) == [getTime |-> t]
Dates == {DateOf(1500)}
\* the dates of a date-typed column: with and without milliseconds, the
\* epoch, and a date before it
CodecDates == {DateOf(0), DateOf(1000), DateOf(1500), DateOf(61001), DateOf(-2500)}
\* ttl argument: absent, or the integer 60
NoTtl == "undefined"
Ttls == {NoTtl, "60"}
\* the calls that may run concurrently / the one caller that awaits each call
Procs == {1, 2}
SeqProcs == {1}
\* primeLoader calls running in the background
BgSlots == {1}

(* ------------------------------ records ------------------------------- *)
Absent == [absent |-> TRUE]
Row(i, v, d) == [id |-> i, val |-> v, deletedAt |-> d]
Rows == {Row(i, v, d) : i \in Ids, v \in Vals, d \in {NullDate} \cup Dates}
AllRows == {Row(i, v, d) : i \in Ids, v \in Vals, d \in {NullDate} \cup CodecDates}
\* JavaScript truthiness of the deletedAt field
IsDeleted(r) == r.deletedAt # NullDate
IsLive(s, i) == s[i] # Absent /\ ~IsDeleted(s[i])

\* a settled promise: fulfilled with a value or rejected with an error
Ok(v) == [kind |-> "ok", val |-> v]
Rejected(m) == [kind |-> "rejected", msg |-> m]
NotFoundMsg == "Could not find ID for object; if using an alternate key, pass in a key function"
CannotRemoveMsg == "Cannot remove, entity does not exist"
CannotUpdateMsg == "COuld not find entity to update"
Unsettled == [kind |-> "unsettled"]

(* --------------------------- TypeORM repository ----------------------- *)
\* a findOne that also returns soft-deleted rows
RepoFindOneWithDeleted(s, i) == s[i]
\* repo.findOne(id): the row, unless missing or soft-deleted
RepoFindOne(s, i) == IF IsLive(s, i) THEN s[i] ELSE Absent

\* the rows of the table that are in keep, in table order
RECURSIVE SelectRows(_, _, _)
SelectRows(s, order, keep) ==
  IF order = <<>> THEN <<>>
  ELSE LET i == Head(order)
           rest == SelectRows(s, Tail(order), keep)
       IN IF s[i] # Absent /\ s[i] \in keep THEN <<s[i]>> \o rest ELSE rest

SeqRange(q) == {q[k] : k \in 1..Len(q)}

\* repo.findByIds(ids): the live rows whose key is in ids, in table order
RepoFindByIds(s, ids) ==
  SelectRows(s, IdOrder, {r \in AllRows : r.id \in SeqRange(ids) /\ ~IsDeleted(r)})

\* repo.find({where, withDeleted}) / queryFunction(qb).getMany():
\* where is a value of the data column or "any"
Wheres == Vals \cup {"any"}
RepoFind(s, where, withDeleted) ==
  SelectRows(s, IdOrder, {r \in AllRows : /\ where = "any" \/ r.val = where
                                          /\ withDeleted \/ ~IsDeleted(r)})

\* repo.save(entity): insert or update by primary key
RepoSave(s, r) == [s EXCEPT ![r.id] = r]
\* repo.remove(entity)
RepoRemove(s, i) == [s EXCEPT ![i] = Absent]
\* repo.softRemove(entity): UPDATE ... SET deletedAt = now
RepoSoftRemove(s, i, d) ==
  IF s[i] = Absent THEN s ELSE [s EXCEPT ![i] = [@ EXCEPT !.deletedAt = d]]

(* ------------------------------ cache keys ---------------------------- *)
cachePrefix == "typeorm-UserEntity"
\* template-literal conversion of an identifier
Digit(d) ==
  CASE d = 0 -> "0" [] d = 1 -> "1" [] d = 2 -> "2" [] d = 3 -> "3" [] d = 4 -> "4"
    [] d = 5 -> "5" [] d = 6 -> "6" [] d = 7 -> "7" [] d = 8 -> "8" [] d = 9 -> "9"
RECURSIVE IdToString(_)
IdToString(i) == IF i < 10 THEN Digit(i) ELSE IdToString(i \div 10) \o Digit(i % 10)
CacheKey(i) == cachePrefix \o IdToString(i)
Keys == {CacheKey(i) : i \in Ids}
Undefined == [undefined |-> TRUE]
\* a read path that never finds its cache entry
CacheHitNever(cacheDoc) == FALSE
\* if (cacheDoc)
CacheHit(cacheDoc) == cacheDoc # Undefined

(* ------------------------------ EJSON codec --------------------------- *)
\* date.toISOString(), cut to the seconds when the milliseconds are 0: the
\* string is given by its seconds part and, if present, its milliseconds part
getISOString(t) ==
  IF t % 1000 = 0 THEN [sec |-> t \div 1000] ELSE [sec |-> t \div 1000, ms |-> t % 1000]
\* Date.parse of such a string
DateParse(iso) == iso.sec * 1000 + (IF "ms" \in DOMAIN iso THEN iso.ms ELSE 0)
\* value.toString() of an integer and Long.fromString(..).toNumber()
NumberToString(n) == IF n < 0 THEN "-" \o IdToString(-n) ELSE IdToString(n)
LongFromString(str) ==
  CHOOSE t \in {d.getTime : d \in CodecDates} : NumberToString(t) = str
\* serializeValue (relaxed) of a date-typed field: null stays null, a Date
\* from the epoch on becomes {"$date": <ISO string>}, an earlier one
\* {"$date": {"$numberLong": <time value>}}
EncodeDate(d) ==
  IF d = NullDate THEN NullDate
  ELSE IF d.getTime > -1 THEN ("$date" :> getISOString(d.getTime))
  ELSE ("$date" :> ("$numberLong" :> NumberToString(d.getTime)))
\* a parse that does not revive {"$date": ..}
JSONRevive(e) == e
\* deserializeValue (relaxed): {"$date": ..} becomes a Date again
DecodeDate(e) ==
  IF e = NullDate THEN NullDate
  ELSE IF "$numberLong" \in DOMAIN e["$date"]
  THEN DateOf(LongFromString(e["$date"]["$numberLong"]))
  ELSE DateOf(DateParse(e["$date"]))
\* EJSON.stringify(doc): numbers and strings as they are
EJSONStringify(r) ==
  [ejson |-> [id |-> r.id, val |-> r.val, deletedAt |-> EncodeDate(r.deletedAt)]]
\* getRepo().create(EJSON.parse(cacheDoc))
EJSONParse(str) ==
  Row(str.ejson.id, str.ejson.val, DecodeDate(str.ejson.deletedAt))

(* ------------------------------ ttl tests ----------------------------- *)
\* a test that takes every ttl that was given: ttl !== undefined
TtlGiven(ttl) == ttl # NoTtl
\* Number.isInteger(ttl)
TtlIsInteger(ttl) == ttl \in {"0", "60"}
\* !!ttl
TtlTruthy(ttl) == ttl \in {"60", "1.5"}

(* ------------------------------ orderDocs ----------------------------- *)
NotFound == Rejected(NotFoundMsg)
\* keyFnDef: the primary key if it is truthy, otherwise undefined
NoKey == -1
keyFnDef(r) == IF r.id # 0 THEN r.id ELSE NoKey
\* new Map(pairs): a later pair with the same key replaces an earlier one
MapGet(docs, i) ==
  LET hits == {k \in 1..Len(docs) : keyFnDef(docs[k]) = i}
  IN IF hits = {} THEN Undefined
     ELSE docs[CHOOSE k \in hits : \A m \in hits : m <= k]
\* a batch function that hands the rows back in the order the table gave them
orderDocsAsReturned(ids, docs) ==
  [k \in 1..Len(ids) |-> IF k <= Len(docs) THEN Ok(docs[k]) ELSE NotFound]
\* ids.map(id => idMap.get(id) ?? new Error(..))
orderDocs(ids, docs) ==
  [k \in 1..Len(ids) |->
     LET got == MapGet(docs, ids[k])
     IN IF got = Undefined THEN NotFound ELSE Ok(got)]

(* ------------------------------ state --------------------------------- *)
VARIABLES
  store,   \* the table: primary key -> row or Absent
  memo,    \* DataLoader's cache map: primary key -> promise
  batch,   \* keys of the DataLoader batch that has not been dispatched yet
  cache,   \* the KeyValueCache: key -> EJSON string or Undefined
  proc,    \* the calls made by the callers, one per slot
  bg,      \* primeLoader calls that run on after their caller returned
  nops,    \* number of calls made so far
  initialized, \* initialize has replaced the placeholder handlers
  ds       \* the data source object: whether the constructor has returned it,
           \* this.entity, and metadata.hasMultiplePrimaryKeys of the entity

vars == <<store, memo, batch, cache, proc, bg, nops, initialized, ds>>

\* what a constructor argument answers to the property reads of
\* isTypeormRepository: getConnection().getRepository(UserEntity), and the
\* value true
UserRepository ==
  [find |-> TRUE, findOne |-> TRUE, metadata |-> [target |-> TRUE, tableName |-> TRUE]]
NotARepository ==
  [find |-> FALSE, findOne |-> FALSE, metadata |-> [target |-> FALSE, tableName |-> FALSE]]
ConstructorArgs == {UserRepository, NotARepository}
NoEntity == [none |-> TRUE]
isTypeormRepository(maybeRepository) ==
  /\ maybeRepository.find
  /\ maybeRepository.findOne
  /\ maybeRepository.metadata.target
  /\ maybeRepository.metadata.tableName

\* a data source constructed for an entity with one primary column
SingleKeySource ==
  [constructed |-> TRUE, entity |-> UserRepository, hasMultiplePrimaryKeys |-> FALSE]

\* DataLoader promises: none cached, waiting for callback k of the batch, settled
NoEntry == [kind |-> "none"]
Pending(k) == [kind |-> "pending", idx |-> k]
Settled(v) == [kind |-> "settled", val |-> v]

\* what a call remembers of the call made just before it
NoOp == [op |-> "none"]
NoArg == [none |-> TRUE]

Idle ==
  [op |-> "none", pc |-> "idle", arg |-> NoArg, items |-> <<>>, loc |-> Absent,
   res |-> Unsettled, returned |-> FALSE,
   alone |-> FALSE, quiet |-> FALSE, was |-> Absent, primed |-> <<>>, after |-> NoOp]

Free == [pc |-> "free"]

\* one findOneById inside findOneById / findManyByIds
Item(i) == [id |-> i, pc |-> "get", idx |-> 0, doc |-> Unsettled, src |-> "none"]

IdLists == [1..MaxIds -> Ids]

\* the tables a data source may be constructed over
InitRows(i) == {Absent} \cup {Row(i, "a", d) : d \in {NullDate} \cup Dates}

Init ==
  /\ store \in {s \in [Ids -> UNION {InitRows(i) : i \in Ids}] :
                  \A i \in Ids : s[i] \in InitRows(i)}
  /\ memo = [i \in Ids |-> NoEntry]
  /\ batch = <<>>
  /\ cache = [k \in Keys |-> Undefined]
  /\ proc = [p \in Procs |-> Idle]
  /\ bg = [b \in BgSlots |-> Free]
  /\ nops = 0
  /\ initialized = TRUE
  /\ ds = SingleKeySource

\* new TypeormDataSource(entity): the data source before initialize
Constructed ==
  /\ store \in {s \in [Ids -> UNION {InitRows(i) : i \in Ids}] :
                  \A i \in Ids : s[i] \in InitRows(i)}
  /\ memo = [i \in Ids |-> NoEntry]
  /\ batch = <<>>
  /\ cache = [k \in Keys |-> Undefined]
  /\ proc = [p \in Procs |-> Idle]
  /\ bg = [b \in BgSlots |-> Free]
  /\ nops = 0
  /\ initialized = FALSE
  /\ ds = SingleKeySource

\* an entity class is declared, with one primary column or with more, and no
\* data source has been constructed for it yet
Declared ==
  /\ store \in {s \in [Ids -> UNION {InitRows(i) : i \in Ids}] :
                  \A i \in Ids : s[i] \in InitRows(i)}
  /\ memo = [i \in Ids |-> NoEntry]
  /\ batch = <<>>
  /\ cache = [k \in Keys |-> Undefined]
  /\ proc = [p \in Procs |-> Idle]
  /\ bg = [b \in BgSlots |-> Free]
  /\ nops = 0
  /\ initialized = FALSE
  /\ ds \in {[constructed |-> FALSE, entity |-> NoEntity, hasMultiplePrimaryKeys |-> m] :
               m \in BOOLEAN}

\* a table whose rows hold every kind of value of the date-typed column
CodecInit ==
  /\ store \in {s \in [Ids -> AllRows \cup {Absent}] :
                  \A i \in Ids : s[i] # Absent => s[i].id = i}
  /\ memo = [i \in Ids |-> NoEntry]
  /\ batch = <<>>
  /\ cache = [k \in Keys |-> Undefined]
  /\ proc = [p \in Procs |-> Idle]
  /\ bg = [b \in BgSlots |-> Free]
  /\ nops = 0
  /\ initialized = TRUE
  /\ ds = SingleKeySource

\* the ordering step of the batch function on its own: the identifiers of a
\* batch, 0 among them, and the rows a multi-get returned, in any order
OrderIds == {0, 1, 2}
OrderRows == {Row(i, "a", NullDate) : i \in OrderIds}
OrderIdLists == {<<i>> : i \in OrderIds} \cup (OrderIds \X OrderIds)
OrderDocLists ==
  {<<>>} \cup {<<r>> : r \in OrderRows}
         \cup {q \in OrderRows \X OrderRows : q[1].id # q[2].id}
OrderInit ==
  /\ batch \in OrderIdLists
  /\ proc \in {[p \in Procs |-> IF p \in SeqProcs THEN [Idle EXCEPT !.loc = docs] ELSE Idle] :
                 docs \in OrderDocLists}
  /\ store = [i \in Ids |-> Absent]
  /\ memo = [i \in Ids |-> NoEntry]
  /\ cache = [k \in Keys |-> Undefined]
  /\ bg = [b \in BgSlots |-> Free]
  /\ nops = 0
  /\ initialized = TRUE
  /\ ds = SingleKeySource

\* return orderDocs(ids, getIdColumn())(results)
ApplyOrderDocs(p) ==
  /\ proc[p].op = "none" /\ proc[p].pc = "idle"
  /\ proc' = [proc EXCEPT ![p].op = "orderDocs", ![p].pc = "done",
                          ![p].res = Ok(orderDocs(batch, proc[p].loc))]
  /\ UNCHANGED <<store, memo, batch, cache, bg, nops>>
  /\ UNCHANGED <<initialized, ds>>

(* ------------------------------ bookkeeping ---------------------------- *)
OthersQuiet(p) == \A q \in Procs \ {p} : proc[q].pc \in {"idle", "done"}
BgFree == \A b \in BgSlots : bg[b] = Free
\* a caller makes its next call when its previous one has finished
CanStart(p) == ds.constructed /\ proc[p].pc \in {"idle", "done"}
\* the calls of one behaviour are limited to MaxOps
Budget == nops < MaxOps

Summary(pr) ==
  [op |-> pr.op, arg |-> pr.arg, quiet |-> pr.quiet,
   was |-> pr.was, primed |-> pr.primed]

\* a new call in slot p; it notes whether it runs alone, whether a primeLoader
\* of an earlier call is still running, and (a lookup) which call it directly
\* follows
Call(p, op, arg) ==
  [Idle EXCEPT !.op = op, !.pc = "run", !.arg = arg,
               !.alone = OthersQuiet(p), !.quiet = BgFree,
               !.after = IF /\ op \in {"findOneById", "findManyByIds"}
                            /\ proc[p].pc = "done" /\ proc[p].alone /\ OthersQuiet(p)
                         THEN Summary(proc[p]) ELSE NoOp]

Disturbed(pr) == [pr EXCEPT !.alone = FALSE, !.after = NoOp]

\* slot p becomes pr; every other call sees that it no longer runs alone
Started(p, pr) == [q \in Procs |-> IF q = p THEN pr ELSE Disturbed(proc[q])]

(* ------------------------------ initialization ------------------------- *)
NotInitializedMsg == "DataSource not initialized"
\* placeholderHandler: the call fails at once
MultiplePrimaryKeysMsg ==
  "TypeormDataSource currently doesn't support entities with multiple primary keys"
\* the idColumn getter throws inside the method: the call is rejected
IdColumnThrows(call) ==
  [call EXCEPT !.pc = "done", !.returned = TRUE, !.res = Rejected(MultiplePrimaryKeysMsg)]
Placeholder(call) ==
  [call EXCEPT !.pc = "done", !.returned = TRUE, !.res = Rejected(NotInitializedMsg)]

(* ------------------------------ DataLoader ----------------------------- *)
\* an eviction that leaves the loader alone
LoaderClearNothing(m, i) == m
\* an eviction that empties the loader, as loader.clearAll() does
LoaderClearAll(m, i) == [j \in Ids |-> NoEntry]
\* loader.clear(key)
LoaderClear(m, i) == [m EXCEPT ![i] = NoEntry]
\* loader.prime(key, value): only adds the key if it does not already exist
LoaderPrime(m, i, r) == IF m[i] = NoEntry THEN [m EXCEPT ![i] = Settled(Ok(r))] ELSE m

(* ------------------------------ findOneById ---------------------------- *)
IsLookup(pr) == pr.op \in {"findOneById", "findManyByIds"} /\ pr.pc = "run"

\* the rest of findOneById once loader.load(id) has settled with v:
\* a rejected load throws, an integer ttl leads to cache.set, else return doc
Deliver(it, v, ttl) ==
  IF v.kind = "rejected" THEN [it EXCEPT !.pc = "done", !.doc = v]
  ELSE IF TtlIsInteger(ttl) THEN [it EXCEPT !.pc = "set", !.doc = v]
  ELSE [it EXCEPT !.pc = "done", !.doc = v]

\* the promise of the call: findOneById returns its document; Promise.all of
\* findManyByIds rejects with the first rejection and otherwise resolves to
\* the array of documents once every findOneById has returned
Settle(pr) ==
  LET n == Len(pr.items)
      rej == {k \in 1..n : pr.items[k].pc = "done" /\ pr.items[k].doc.kind = "rejected"}
      all == \A k \in 1..n : pr.items[k].pc = "done"
      out == IF rej # {} THEN pr.items[CHOOSE k \in rej : TRUE].doc
             ELSE IF pr.op = "findOneById" THEN pr.items[1].doc
             ELSE Ok([k \in 1..n |-> pr.items[k].doc.val])
  IN [pr EXCEPT !.pc = IF all THEN "done" ELSE "run",
                !.returned = pr.returned \/ all \/ rej # {},
                !.res = IF ~pr.returned /\ (all \/ rej # {}) THEN out ELSE pr.res]

findOneById(p, i, ttl) ==
  /\ CanStart(p)
  /\ proc' = Started(p,
       IF initialized
       THEN [Call(p, "findOneById", [ids |-> <<i>>, ttl |-> ttl])
               EXCEPT !.items = <<Item(i)>>]
       ELSE Placeholder(Call(p, "findOneById", [ids |-> <<i>>, ttl |-> ttl])))
  /\ nops' = nops + 1
  /\ UNCHANGED <<store, memo, batch, cache, bg>>
  /\ UNCHANGED <<initialized, ds>>

findManyByIds(p, ids, ttl) ==
  /\ CanStart(p)
  /\ proc' = Started(p,
       IF initialized
       THEN [Call(p, "findManyByIds", [ids |-> ids, ttl |-> ttl])
               EXCEPT !.items = [k \in 1..Len(ids) |-> Item(ids[k])]]
       ELSE Placeholder(Call(p, "findManyByIds", [ids |-> ids, ttl |-> ttl])))
  /\ nops' = nops + 1
  /\ UNCHANGED <<store, memo, batch, cache, bg>>
  /\ UNCHANGED <<initialized, ds>>

\* const cacheDoc = await cache.get(key); if (cacheDoc) return create(parse(cacheDoc))
CacheGet(p, k) ==
  /\ IsLookup(proc[p])
  /\ k \in 1..Len(proc[p].items)
  /\ proc[p].items[k].pc = "get"
  /\ LET it == proc[p].items[k]
         cacheDoc == cache[CacheKey(it.id)]
         it2 == IF CacheHit(cacheDoc)
                THEN [it EXCEPT !.pc = "done", !.doc = Ok(EJSONParse(cacheDoc)), !.src = "cache"]
                ELSE [it EXCEPT !.pc = "load"]
     IN proc' = [proc EXCEPT ![p] = Settle([@ EXCEPT !.items[k] = it2])]
  /\ UNCHANGED <<store, memo, batch, cache, bg, nops>>
  /\ UNCHANGED <<initialized, ds>>

\* loader.load(id): a cached promise is returned as it is, a new key joins the batch
Load(p, k) ==
  /\ IsLookup(proc[p])
  /\ k \in 1..Len(proc[p].items)
  /\ proc[p].items[k].pc = "load"
  /\ LET it == proc[p].items[k]
         m == memo[it.id]
     IN CASE m.kind = "settled" ->
               /\ proc' = [proc EXCEPT ![p] = Settle([@ EXCEPT !.items[k] =
                             Deliver([it EXCEPT !.src = "memo"], m.val, proc[p].arg.ttl)])]
               /\ UNCHANGED <<memo, batch>>
          [] m.kind = "pending" ->
               /\ proc' = [proc EXCEPT ![p].items[k] =
                             [it EXCEPT !.pc = "wait", !.idx = m.idx, !.src = "promise"]]
               /\ UNCHANGED <<memo, batch>>
          [] m.kind = "none" ->
               /\ batch' = Append(batch, it.id)
               /\ memo' = [memo EXCEPT ![it.id] = Pending(Len(batch) + 1)]
               /\ proc' = [proc EXCEPT ![p].items[k] =
                             [it EXCEPT !.pc = "wait", !.idx = Len(batch) + 1, !.src = "batch"]]
  /\ UNCHANGED <<store, cache, bg, nops>>
  /\ UNCHANGED <<initialized, ds>>

\* a dispatch that leaves out the lookups whose key was cleared while they
\* waited for the batch
DispatchBatchSkipsCleared ==
  /\ batch # <<>>
  /\ LET results == RepoFindByIds(store, batch)
         values == orderDocs(batch, results)
     IN /\ memo' = [i \in Ids |-> IF memo[i].kind = "pending"
                                  THEN Settled(values[memo[i].idx]) ELSE memo[i]]
        /\ proc' = [p \in Procs |->
                      IF IsLookup(proc[p])
                      THEN Settle([proc[p] EXCEPT !.items =
                             [k \in 1..Len(proc[p].items) |->
                                IF /\ proc[p].items[k].pc = "wait"
                                   /\ memo[proc[p].items[k].id] = Pending(proc[p].items[k].idx)
                                THEN Deliver(proc[p].items[k],
                                             values[proc[p].items[k].idx], proc[p].arg.ttl)
                                ELSE proc[p].items[k]]])
                      ELSE proc[p]]
  /\ batch' = <<>>
  /\ UNCHANGED <<store, cache, bg, nops>>
  /\ UNCHANGED <<initialized, ds>>

\* the batch function: findByIds, orderDocs, then every promise of the batch
\* settles (an Error value rejects its promise, which stays in the cache map)
DispatchBatch ==
  /\ batch # <<>>
  /\ LET results == RepoFindByIds(store, batch)
         values == orderDocs(batch, results)
     IN /\ memo' = [i \in Ids |-> IF memo[i].kind = "pending"
                                  THEN Settled(values[memo[i].idx]) ELSE memo[i]]
        /\ proc' = [p \in Procs |->
                      IF IsLookup(proc[p])
                      THEN Settle([proc[p] EXCEPT !.items =
                             [k \in 1..Len(proc[p].items) |->
                                IF proc[p].items[k].pc = "wait"
                                THEN Deliver(proc[p].items[k],
                                             values[proc[p].items[k].idx], proc[p].arg.ttl)
                                ELSE proc[p].items[k]]])
                      ELSE proc[p]]
  /\ batch' = <<>>
  /\ UNCHANGED <<store, cache, bg, nops>>
  /\ UNCHANGED <<initialized, ds>>

\* the error with which the table's findByIds fails
StoreError == "QueryFailedError"

\* a failing batch whose rejection stays in the cache map of the loader
failedDispatchMemoized ==
  /\ batch # <<>>
  /\ memo' = [i \in Ids |-> IF memo[i].kind = "pending"
                             THEN Settled(Rejected(StoreError)) ELSE memo[i]]
  /\ proc' = [p \in Procs |->
                IF IsLookup(proc[p])
                THEN Settle([proc[p] EXCEPT !.items =
                       [k \in 1..Len(proc[p].items) |->
                          IF proc[p].items[k].pc = "wait"
                          THEN Deliver(proc[p].items[k], Rejected(StoreError),
                                       proc[p].arg.ttl)
                          ELSE proc[p].items[k]]])
                ELSE proc[p]]
  /\ batch' = <<>>
  /\ UNCHANGED <<store, cache, bg, nops>>
  /\ UNCHANGED <<initialized, ds>>

\* the batch function rejects (await getRepo().findByIds fails): the loader
\* clears every key of the batch and rejects every promise of the batch
failedDispatch ==
  /\ batch # <<>>
  /\ memo' = [i \in Ids |-> IF \E k \in 1..Len(batch) : batch[k] = i
                             THEN NoEntry ELSE memo[i]]
  /\ proc' = [p \in Procs |->
                IF IsLookup(proc[p])
                THEN Settle([proc[p] EXCEPT !.items =
                       [k \in 1..Len(proc[p].items) |->
                          IF proc[p].items[k].pc = "wait"
                          THEN Deliver(proc[p].items[k], Rejected(StoreError),
                                       proc[p].arg.ttl)
                          ELSE proc[p].items[k]]])
                ELSE proc[p]]
  /\ batch' = <<>>
  /\ UNCHANGED <<store, cache, bg, nops>>
  /\ UNCHANGED <<initialized, ds>>

\* await cache.set(key, EJSON.stringify(doc), { ttl }); return doc
CacheSet(p, k) ==
  /\ IsLookup(proc[p])
  /\ k \in 1..Len(proc[p].items)
  /\ proc[p].items[k].pc = "set"
  /\ LET it == proc[p].items[k]
     IN /\ cache' = [cache EXCEPT ![CacheKey(it.id)] = EJSONStringify(it.doc.val)]
        /\ proc' = [proc EXCEPT ![p] = Settle([@ EXCEPT !.items[k].pc = "done"])]
  /\ UNCHANGED <<store, memo, batch, bg, nops>>
  /\ UNCHANGED <<initialized, ds>>

(* ------------------------------ deleteFromCacheById -------------------- *)
\* loader.clear(id), then cache.delete is awaited
deleteFromCacheById(p, i) ==
  /\ CanStart(p)
  /\ memo' = IF initialized THEN LoaderClear(memo, i) ELSE memo
  /\ proc' = Started(p,
       IF initialized
       THEN [Call(p, "deleteFromCacheById", [id |-> i])
               EXCEPT !.pc = "cacheDelete",
                      !.was = [memo |-> memo[i], cache |-> cache[CacheKey(i)]]]
       ELSE Placeholder(Call(p, "deleteFromCacheById", [id |-> i])))
  /\ nops' = nops + 1
  /\ UNCHANGED <<store, batch, cache, bg>>
  /\ UNCHANGED <<initialized, ds>>

\* the cache entry evicted by cache.delete(key)
CacheDeleteKeeps(c, key) == c
CacheDeleteKey(c, key) == [c EXCEPT ![key] = Undefined]

\* await cache.delete(key); deleteOne then returns the response of the store
CacheDelete(p) ==
  /\ proc[p].pc = "cacheDelete"
  /\ cache' = CacheDeleteKey(cache, CacheKey(proc[p].arg.id))
  /\ proc' = [proc EXCEPT ![p].pc = "done", ![p].returned = TRUE,
                          ![p].res = IF proc[p].op = "deleteOne"
                                     THEN Ok(proc[p].loc) ELSE Ok(Undefined)]
  /\ UNCHANGED <<store, memo, batch, bg, nops>>
  /\ UNCHANGED <<initialized, ds>>

(* ------------------------------ primeLoader ---------------------------- *)
\* if (deleteDateColumn && entity[deleteDateColumn]) continue
SkipEntity(ent) == IsDeleted(ent)

\* index of the first entity from position i on that the loop does not skip
FirstKept(ents, i) ==
  LET kept == {j \in i..Len(ents) : ~SkipEntity(ents[j])}
  IN IF kept = {} THEN 0 ELSE CHOOSE j \in kept : \A m \in kept : j <= m

\* the loop of primeLoader from entity i up to its next await: skipped
\* entities are passed over, the next one is primed into the loader, and the
\* loop stops at cache.set (ttl given) or at cache.get (no ttl)
PrimeFrom(m, ents, i, ttl) ==
  LET j == FirstKept(ents, i)
  IN IF j = 0 THEN [memo |-> m, task |-> Free]
     ELSE [memo |-> LoaderPrime(m, ents[j].id, ents[j]),
           task |-> [pc |-> IF TtlTruthy(ttl) THEN "set" ELSE "get",
                     ents |-> ents, i |-> j, ttl |-> ttl]]

\* this.primeLoader(result, ttl) without await, then return result; before
\* initialize primeLoader is the placeholder and throws inside the method
PrimeAndReturn(p, ents, ttl, result) ==
  LET ps == PrimeFrom(memo, ents, 1, ttl)
  IN IF initialized
     THEN /\ ps.task = Free \/ \E b \in BgSlots : bg[b] = Free
          /\ memo' = ps.memo
          /\ bg' = IF ps.task = Free THEN bg
                   ELSE [bg EXCEPT ![CHOOSE b \in BgSlots : bg[b] = Free] = ps.task]
          /\ proc' = [proc EXCEPT ![p].pc = "done", ![p].returned = TRUE,
                                  ![p].res = Ok(result), ![p].primed = ents]
     ELSE /\ proc' = [proc EXCEPT ![p] = Placeholder(@)]
          /\ UNCHANGED <<memo, bg>>

\* !!(await cache.get(key)): an existing entry is refreshed, otherwise the
\* loop goes on to the next entity
PrimeCacheGet(b) ==
  /\ bg[b].pc = "get"
  /\ LET t == bg[b]
         key == CacheKey(t.ents[t.i].id)
         ps == PrimeFrom(memo, t.ents, t.i + 1, t.ttl)
     IN IF CacheHit(cache[key])
        THEN /\ bg' = [bg EXCEPT ![b].pc = "set"]
             /\ UNCHANGED memo
        ELSE /\ bg' = [bg EXCEPT ![b] = ps.task]
             /\ memo' = ps.memo
  /\ UNCHANGED <<store, batch, cache, proc, nops>>
  /\ UNCHANGED <<initialized, ds>>

\* await cache.set(key, EJSON.stringify(entity), { ttl }), then the next entity
PrimeCacheSet(b) ==
  /\ bg[b].pc = "set"
  /\ LET t == bg[b]
         ps == PrimeFrom(memo, t.ents, t.i + 1, t.ttl)
     IN /\ cache' = [cache EXCEPT ![CacheKey(t.ents[t.i].id)] = EJSONStringify(t.ents[t.i])]
        /\ bg' = [bg EXCEPT ![b] = ps.task]
        /\ memo' = ps.memo
  /\ UNCHANGED <<store, batch, proc, nops>>
  /\ UNCHANGED <<initialized, ds>>

\* rows a caller may hold from a query of its own
RowLists(s) ==
  LET have == {s[i] : i \in {j \in Ids : s[j] # Absent}}
  IN {<<r>> : r \in have} \cup {q \in have \X have : q[1] # q[2]}

\* primeLoader called directly
primeLoader(p, ents, ttl) ==
  /\ CanStart(p)
  /\ LET ps == PrimeFrom(memo, ents, 1, ttl)
     IN IF initialized
        THEN /\ ps.task = Free \/ \E b \in BgSlots : bg[b] = Free
             /\ memo' = ps.memo
             /\ bg' = IF ps.task = Free THEN bg
                      ELSE [bg EXCEPT ![CHOOSE b \in BgSlots : bg[b] = Free] = ps.task]
             /\ proc' = Started(p, [Call(p, "primeLoader", [ents |-> ents, ttl |-> ttl])
                                      EXCEPT !.pc = "done", !.returned = TRUE,
                                             !.res = Ok(Undefined), !.primed = ents])
        ELSE /\ proc' = Started(p, Placeholder(Call(p, "primeLoader",
                                                    [ents |-> ents, ttl |-> ttl])))
             /\ UNCHANGED <<memo, bg>>
  /\ nops' = nops + 1
  /\ UNCHANGED <<store, batch, cache>>
  /\ UNCHANGED <<initialized, ds>>

(* ------------------------------ queries -------------------------------- *)
\* const results = await this.repo.find({ where, order, withDeleted })
findManyWhere(p, where, ttl, withDeleted) ==
  /\ CanStart(p)
  /\ proc' = Started(p, [Call(p, "findManyWhere",
                              [where |-> where, ttl |-> ttl, withDeleted |-> withDeleted])
                           EXCEPT !.pc = "findMany:prime",
                                  !.loc = RepoFind(store, where, withDeleted)])
  /\ nops' = nops + 1
  /\ UNCHANGED <<store, memo, batch, cache, bg>>
  /\ UNCHANGED <<initialized, ds>>

\* const results = await queryFunction(qb).getMany()
findManyByQuery(p, where, ttl, withDeleted) ==
  /\ CanStart(p)
  /\ proc' = Started(p, [Call(p, "findManyByQuery",
                              [where |-> where, ttl |-> ttl, withDeleted |-> withDeleted])
                           EXCEPT !.pc = "findMany:prime",
                                  !.loc = RepoFind(store, where, withDeleted)])
  /\ nops' = nops + 1
  /\ UNCHANGED <<store, memo, batch, cache, bg>>
  /\ UNCHANGED <<initialized, ds>>

\* a query that answers with the memoized version of a row where there is one
ReturnFindManyFromMemo(p) ==
  /\ proc[p].pc = "findMany:prime"
  /\ PrimeAndReturn(p, proc[p].loc, proc[p].arg.ttl,
                    [k \in 1..Len(proc[p].loc) |->
                       LET e == memo[proc[p].loc[k].id]
                       IN IF e.kind = "settled" /\ e.val.kind = "ok"
                          THEN e.val.val ELSE proc[p].loc[k]])
  /\ UNCHANGED <<store, batch, cache, nops>>
  /\ UNCHANGED <<initialized, ds>>

\* this.primeLoader(results, ttl); return results
ReturnFindMany(p) ==
  /\ proc[p].pc = "findMany:prime"
  /\ PrimeAndReturn(p, proc[p].loc, proc[p].arg.ttl, proc[p].loc)
  /\ UNCHANGED <<store, batch, cache, nops>>
  /\ UNCHANGED <<initialized, ds>>

(* ------------------------------ mutations ------------------------------ *)
idColumn == "id"
\* inputs of createOne without a primary key
NewInputs == {[val |-> v] : v \in Vals}
\* payloads of updateOnePartial: the data column, the primary key, or both
Payloads == {[val |-> v] : v \in Vals} \cup {[id |-> j] : j \in Ids}
            \cup {[id |-> j, val |-> v] : j \in Ids, v \in Vals}

\* a partial update that applies the payload as it came
CleanDataKeepsId(data) == data
\* const { [this.idColumn]: _id, ...cleanData } = data
CleanData(data) == [f \in DOMAIN data \ {idColumn} |-> data[f]]
\* repo.merge(found, cleanData)
RepoMerge(found, data) ==
  [f \in DOMAIN found |-> IF f \in DOMAIN data THEN data[f] ELSE found[f]]
\* repo.create(newEntity) saved under a generated primary key
RepoCreate(input, i) == Row(i, input.val, NullDate)

\* const result = await this.repo.save(data)
updateOne(p, data) ==
  /\ CanStart(p)
  /\ store' = RepoSave(store, data)
  /\ proc' = Started(p, [Call(p, "updateOne", [data |-> data])
                           EXCEPT !.pc = "updateOne:prime", !.loc = data,
                                  !.was = store[data.id]])
  /\ nops' = nops + 1
  /\ UNCHANGED <<memo, batch, cache, bg>>
  /\ UNCHANGED <<initialized, ds>>

\* this.primeLoader(result); return result
ReturnUpdateOne(p) ==
  /\ proc[p].pc = "updateOne:prime"
  /\ PrimeAndReturn(p, <<proc[p].loc>>, NoTtl, proc[p].loc)
  /\ UNCHANGED <<store, batch, cache, nops>>
  /\ UNCHANGED <<initialized, ds>>

\* if (this.idColumn in newEntity) return await this.updateOne(newEntity)
\* else const result = await this.repo.save(this.repo.create(newEntity))
createOne(p, input, ttl) ==
  /\ CanStart(p)
  /\ IF ds.hasMultiplePrimaryKeys
     THEN /\ proc' = Started(p, IdColumnThrows(
                         Call(p, "createOne", [data |-> input, ttl |-> ttl])))
          /\ store' = store
     ELSE IF idColumn \in DOMAIN input
     THEN /\ store' = RepoSave(store, input)
          /\ proc' = Started(p, [Call(p, "createOne", [data |-> input, ttl |-> ttl])
                                   EXCEPT !.pc = "updateOne:prime", !.loc = input,
                                          !.was = store[input.id]])
     ELSE \E i \in {j \in Ids : store[j] = Absent} :
            /\ store' = RepoSave(store, RepoCreate(input, i))
            /\ proc' = Started(p, [Call(p, "createOne", [data |-> input, ttl |-> ttl])
                                     EXCEPT !.pc = "createOne:prime",
                                            !.loc = RepoCreate(input, i)])
  /\ nops' = nops + 1
  /\ UNCHANGED <<memo, batch, cache, bg>>
  /\ UNCHANGED <<initialized, ds>>

\* if (result) this.primeLoader(result, ttl); return result
ReturnCreateOne(p) ==
  /\ proc[p].pc = "createOne:prime"
  /\ PrimeAndReturn(p, <<proc[p].loc>>, proc[p].arg.ttl, proc[p].loc)
  /\ UNCHANGED <<store, batch, cache, nops>>
  /\ UNCHANGED <<initialized, ds>>

\* const { [this.idColumn]: _id, ...cleanData } = data   (the getter may throw)
\* const found = await this.repo.findOne(id); if (!found) throw
updateOnePartial(p, i, data) ==
  /\ CanStart(p)
  /\ LET found == RepoFindOne(store, i)
         call == Call(p, "updateOnePartial", [id |-> i, data |-> data])
     IN proc' = Started(p,
          IF ds.hasMultiplePrimaryKeys THEN IdColumnThrows(call)
          ELSE IF found = Absent
          THEN [call EXCEPT !.pc = "done", !.returned = TRUE,
                            !.res = Rejected(CannotUpdateMsg)]
          ELSE [call EXCEPT !.pc = "updateOnePartial:save", !.loc = found, !.was = found])
  /\ nops' = nops + 1
  /\ UNCHANGED <<store, memo, batch, cache, bg>>
  /\ UNCHANGED <<initialized, ds>>

\* const result = await this.repo.save(this.repo.merge(found, cleanData))
SaveUpdateOnePartial(p) ==
  /\ proc[p].pc = "updateOnePartial:save"
  /\ LET result == RepoMerge(proc[p].loc, CleanData(proc[p].arg.data))
     IN /\ store' = RepoSave(store, result)
        /\ proc' = [proc EXCEPT ![p].pc = "updateOnePartial:prime", ![p].loc = result]
  /\ UNCHANGED <<memo, batch, cache, bg, nops>>
  /\ UNCHANGED <<initialized, ds>>

\* this.primeLoader(result); return result
ReturnUpdateOnePartial(p) ==
  /\ proc[p].pc = "updateOnePartial:prime"
  /\ PrimeAndReturn(p, <<proc[p].loc>>, NoTtl, proc[p].loc)
  /\ UNCHANGED <<store, batch, cache, nops>>
  /\ UNCHANGED <<initialized, ds>>

\* { hard }: { hard?: boolean } = {}: the option is true, false or left out
NoHard == "undefined"
HardOptions == {"true", "false", NoHard}
HardTruthy(hard) == hard = "true"

\* const entity = await this.repo.findOne(id); if (!entity) throw
deleteOne(p, i, hard) ==
  /\ CanStart(p)
  /\ LET entity == RepoFindOne(store, i)
         call == Call(p, "deleteOne", [id |-> i, hard |-> hard])
     IN proc' = Started(p,
          IF entity = Absent
          THEN [call EXCEPT !.pc = "done", !.returned = TRUE,
                            !.res = Rejected(CannotRemoveMsg)]
          ELSE [call EXCEPT !.pc = "deleteOne:remove", !.loc = entity, !.was = entity])
  /\ nops' = nops + 1
  /\ UNCHANGED <<store, memo, batch, cache, bg>>
  /\ UNCHANGED <<initialized, ds>>

\* a deleteOne that ignores its hard flag
AlwaysRemove(s, i, hard, d) == RepoRemove(s, i)
\* hard ? this.repo.remove(entity) : this.repo.softRemove(entity)
RemoveOrSoftRemove(s, i, hard, d) ==
  IF HardTruthy(hard) THEN RepoRemove(s, i) ELSE RepoSoftRemove(s, i, d)

\* const response = await (hard ? remove(entity) : softRemove(entity))
RemoveDeleteOne(p) ==
  /\ proc[p].pc = "deleteOne:remove"
  /\ \E d \in Dates :
       /\ store' = RemoveOrSoftRemove(store, proc[p].arg.id, proc[p].arg.hard, d)
       /\ proc' = [proc EXCEPT ![p].pc = "deleteOne:clear",
                               ![p].loc = IF HardTruthy(proc[p].arg.hard) THEN proc[p].loc
                                          ELSE [proc[p].loc EXCEPT !.deletedAt = d]]
  /\ UNCHANGED <<memo, batch, cache, bg, nops>>
  /\ UNCHANGED <<initialized, ds>>

\* await this.deleteFromCacheById(id): loader.clear(id) runs at once
ClearDeleteOne(p) ==
  /\ proc[p].pc = "deleteOne:clear"
  /\ memo' = IF initialized THEN LoaderClear(memo, proc[p].arg.id) ELSE memo
  /\ proc' = [proc EXCEPT ![p] = IF initialized THEN [@ EXCEPT !.pc = "cacheDelete"]
                                 ELSE Placeholder(@)]
  /\ UNCHANGED <<store, batch, cache, bg, nops>>
  /\ UNCHANGED <<initialized, ds>>

(* ------------------------------ initialize ------------------------------ *)
\* initialize({ context, cache }): createCachingMethods builds a new loader
\* over the given cache and Object.assign puts its methods on the instance
initialize ==
  /\ ds.constructed
  /\ ~initialized
  /\ initialized' = TRUE
  /\ memo' = [i \in Ids |-> NoEntry]
  /\ batch' = <<>>
  /\ UNCHANGED <<store, cache, proc, bg, nops, ds>>

\* new TypeormDataSource(entity, options): stores its arguments
construct(entity) ==
  /\ ~ds.constructed
  /\ ds' = [ds EXCEPT !.constructed = TRUE, !.entity = entity]
  /\ UNCHANGED <<store, memo, batch, cache, proc, bg, nops, initialized>>

(* ------------------------------ a shared cache -------------------------- *)
\* entity classes of data sources that are given the same cache, and
\* primary keys of their records
EntityNames == {"User", "Oauth", "Oauth2"}
SharedIds == {1, 2, 21}
\* cachePrefix = `typeorm-${entity.name}`
CachePrefixOf(name) == "typeorm-" \o name
\* key = `${cachePrefix}${id}`
KeyOf(name, i) == CachePrefixOf(name) \o IdToString(i)
SharedKeys == {KeyOf(n, i) : n \in EntityNames, i \in SharedIds}
\* the cached document of record i of entity n
DocOf(n, i) == [entity |-> n, id |-> i]

\* the data sources of a server are initialized with the cache of the server
SharedInit ==
  /\ cache = [k \in SharedKeys |-> Undefined]
  /\ store = [i \in Ids |-> Absent]
  /\ memo = [i \in Ids |-> NoEntry]
  /\ batch = <<>>
  /\ proc = [p \in Procs |-> Idle]
  /\ bg = [b \in BgSlots |-> Free]
  /\ nops = 0
  /\ initialized = TRUE
  /\ ds = SingleKeySource

\* cache.set(key, EJSON.stringify(doc)) by the data source of entity n
SharedCacheSet(n, i) ==
  /\ cache' = [cache EXCEPT ![KeyOf(n, i)] = DocOf(n, i)]
  /\ UNCHANGED <<store, memo, batch, proc, bg, nops, initialized, ds>>

\* cache.delete(key) by the data source of entity n
SharedCacheDelete(n, i) ==
  /\ cache[KeyOf(n, i)] # Undefined
  /\ cache' = [cache EXCEPT ![KeyOf(n, i)] = Undefined]
  /\ UNCHANGED <<store, memo, batch, proc, bg, nops, initialized, ds>>

(* ------------------------------ environment ----------------------------- *)
\* a write to the table that bypasses the data source (repo.update in the tests)
StoreUpdate(i, v) ==
  /\ store[i] # Absent
  /\ store[i].val # v
  /\ store' = [store EXCEPT ![i].val = v]
  /\ proc' = [q \in Procs |-> Disturbed(proc[q])]
  /\ UNCHANGED <<memo, batch, cache, bg, nops>>
  /\ UNCHANGED <<initialized, ds>>

\* repo.update(...) by the caller between two of its calls: a write to the
\* table outside of the data source
RepoUpdate(i, v) ==
  /\ store[i] # Absent
  /\ store[i].val # v
  /\ \A p \in Procs : proc[p].pc \in {"idle", "done"}
  /\ store' = [store EXCEPT ![i].val = v]
  /\ UNCHANGED <<memo, batch, cache, proc, bg, nops>>
  /\ UNCHANGED <<initialized, ds>>

\* the record r of the table is written to the cache:
\* cache.set(key, EJSON.stringify(r), { ttl })
CacheWrite(i) ==
  /\ store[i] # Absent
  /\ cache[CacheKey(i)] = Undefined
  /\ cache' = [cache EXCEPT ![CacheKey(i)] = EJSONStringify(store[i])]
  /\ UNCHANGED <<store, memo, batch, proc, bg, nops>>
  /\ UNCHANGED <<initialized, ds>>

\* the KeyValueCache drops an entry whose ttl has run out
CacheExpire(k) ==
  /\ cache[k] # Undefined
  /\ cache' = [cache EXCEPT ![k] = Undefined]
  /\ UNCHANGED <<store, memo, batch, proc, bg, nops>>
  /\ UNCHANGED <<initialized, ds>>

(* ------------------------------ specification --------------------------- *)
\* the steps that follow the awaits of the calls
LookupSteps(p) ==
  \/ \E k \in 1..MaxIds : CacheGet(p, k)
  \/ \E k \in 1..MaxIds : Load(p, k)
  \/ \E k \in 1..MaxIds : CacheSet(p, k)

PrimeSteps ==
  \/ \E b \in BgSlots : PrimeCacheGet(b)
  \/ \E b \in BgSlots : PrimeCacheSet(b)

\* every call of the data source, with every argument of the domains
AnyCall(p) ==
  \/ \E i \in Ids, ttl \in Ttls : findOneById(p, i, ttl)
  \/ \E ids \in IdLists, ttl \in Ttls : findManyByIds(p, ids, ttl)
  \/ \E i \in Ids : deleteFromCacheById(p, i)
  \/ \E ents \in RowLists(store), ttl \in Ttls : primeLoader(p, ents, ttl)
  \/ \E w \in Wheres, ttl \in Ttls, wd \in BOOLEAN : findManyWhere(p, w, ttl, wd)
  \/ \E w \in Wheres, ttl \in Ttls, wd \in BOOLEAN : findManyByQuery(p, w, ttl, wd)
  \/ \E data \in Rows : updateOne(p, data)
  \/ \E input \in Rows \cup NewInputs, ttl \in Ttls : createOne(p, input, ttl)
  \/ \E i \in Ids, data \in Payloads : updateOnePartial(p, i, data)
  \/ \E i \in Ids, hard \in HardOptions : deleteOne(p, i, hard)

AnyStep(p) ==
  \/ LookupSteps(p)
  \/ CacheDelete(p)
  \/ ReturnFindMany(p)
  \/ ReturnUpdateOne(p)
  \/ ReturnCreateOne(p)
  \/ SaveUpdateOnePartial(p)
  \/ ReturnUpdateOnePartial(p)
  \/ RemoveDeleteOne(p)
  \/ ClearDeleteOne(p)

\* any number of callers, any calls
Next ==
  \/ Budget /\ \E p \in Procs : AnyCall(p)
  \/ \E p \in Procs : AnyStep(p)
  \/ DispatchBatch
  \/ PrimeSteps
  \/ \E i \in Ids, v \in Vals : StoreUpdate(i, v)
  \/ \E k \in Keys : CacheExpire(k)
Spec == Init /\ [][Next]_vars

\* one caller that awaits every call before it makes the next: identifier
\* lookups, eviction and creation of records, over a table that is also
\* written directly and a cache whose entries expire
NextLookup ==
  \/ Budget /\ \E p \in SeqProcs :
       \/ \E i \in Ids, ttl \in Ttls : findOneById(p, i, ttl)
       \/ \E ids \in IdLists, ttl \in Ttls : findManyByIds(p, ids, ttl)
       \/ \E i \in Ids : deleteFromCacheById(p, i)
       \/ \E input \in NewInputs, ttl \in Ttls : createOne(p, input, ttl)
  \/ \E p \in SeqProcs : LookupSteps(p) \/ CacheDelete(p) \/ ReturnCreateOne(p)
  \/ DispatchBatch
  \/ PrimeSteps
  \/ \E i \in Ids : StoreUpdate(i, "b")
  \/ \E k \in Keys : CacheExpire(k)
SpecLookup == Init /\ [][NextLookup]_vars

\* one caller that awaits every call: updates and deletions of records that
\* are looked up before and after
WrittenRows == {Row(i, "b", d) : i \in Ids, d \in {NullDate} \cup Dates}
NextMutate ==
  \/ Budget /\ \E p \in SeqProcs :
       \/ \E i \in Ids, ttl \in Ttls : findOneById(p, i, ttl)
       \/ \E data \in WrittenRows : updateOne(p, data)
       \/ \E i \in Ids, data \in Payloads : updateOnePartial(p, i, data)
       \/ \E i \in Ids, hard \in HardOptions : deleteOne(p, i, hard)
  \/ \E p \in SeqProcs :
       \/ LookupSteps(p)
       \/ ReturnUpdateOne(p)
       \/ SaveUpdateOnePartial(p)
       \/ ReturnUpdateOnePartial(p)
       \/ RemoveDeleteOne(p)
       \/ ClearDeleteOne(p)
       \/ CacheDelete(p)
  \/ DispatchBatch
  \/ PrimeSteps
SpecMutate == Init /\ [][NextMutate]_vars

\* one caller that awaits every call: every call that primes the loader,
\* followed by lookups
NextPrime ==
  \/ Budget /\ \E p \in SeqProcs :
       \/ \E i \in Ids, ttl \in Ttls : findOneById(p, i, ttl)
       \/ \E ents \in RowLists(store), ttl \in Ttls : primeLoader(p, ents, ttl)
       \/ \E ttl \in Ttls, wd \in BOOLEAN : findManyWhere(p, "any", ttl, wd)
       \/ \E ttl \in Ttls, wd \in BOOLEAN : findManyByQuery(p, "any", ttl, wd)
       \/ \E input \in NewInputs, ttl \in Ttls : createOne(p, input, ttl)
       \/ \E data \in WrittenRows : updateOne(p, data)
       \/ \E i \in Ids : updateOnePartial(p, i, [val |-> "b"])
  \/ \E p \in SeqProcs :
       \/ LookupSteps(p)
       \/ ReturnFindMany(p)
       \/ ReturnCreateOne(p)
       \/ ReturnUpdateOne(p)
       \/ SaveUpdateOnePartial(p)
       \/ ReturnUpdateOnePartial(p)
  \/ DispatchBatch
  \/ PrimeSteps
SpecPrime == Init /\ [][NextPrime]_vars

\* two callers whose calls overlap: deletions of a record race the lookups
\* and the priming of the same record
NextRace ==
  \/ Budget /\ \E p \in Procs :
       \/ \E i \in Ids, hard \in HardOptions : deleteOne(p, i, hard)
       \/ \E i \in Ids : findOneById(p, i, "60")
       \/ \E i \in Ids : updateOne(p, Row(i, "b", NullDate))
       \/ \E i \in Ids : updateOnePartial(p, i, [val |-> "b"])
       \/ createOne(p, [val |-> "b"], "60")
       \/ findManyWhere(p, "any", "60", FALSE)
       \/ findManyByQuery(p, "any", "60", FALSE)
  \/ \E p \in Procs :
       \/ LookupSteps(p)
       \/ RemoveDeleteOne(p)
       \/ ClearDeleteOne(p)
       \/ CacheDelete(p)
       \/ ReturnUpdateOne(p)
       \/ SaveUpdateOnePartial(p)
       \/ ReturnUpdateOnePartial(p)
       \/ ReturnCreateOne(p)
       \/ ReturnFindMany(p)
  \/ DispatchBatch
  \/ PrimeSteps
SpecRace == Init /\ [][NextRace]_vars

\* two callers whose lookups share the batch of the loader, with evictions
\* made while a batch is pending
NextBatch ==
  \/ Budget /\ \E p \in Procs :
       \/ \E i \in Ids, ttl \in Ttls : findOneById(p, i, ttl)
       \/ \E ids \in IdLists : findManyByIds(p, ids, NoTtl)
       \/ \E i \in Ids : deleteFromCacheById(p, i)
  \/ \E p \in Procs : LookupSteps(p) \/ CacheDelete(p)
  \/ DispatchBatch
SpecBatch == Init /\ [][NextBatch]_vars

\* one caller that uses the data source before and after initialize
NextInit ==
  \/ Budget /\ \E p \in SeqProcs :
       \/ \E i \in Ids, ttl \in Ttls : findOneById(p, i, ttl)
       \/ \E ids \in IdLists : findManyByIds(p, ids, NoTtl)
       \/ \E i \in Ids : deleteFromCacheById(p, i)
       \/ \E ents \in RowLists(store) : primeLoader(p, ents, NoTtl)
       \/ findManyWhere(p, "any", NoTtl, FALSE)
       \/ findManyByQuery(p, "any", NoTtl, FALSE)
       \/ \E ttl \in Ttls : createOne(p, [val |-> "b"], ttl)
       \/ \E i \in Ids : updateOne(p, Row(i, "b", NullDate))
       \/ \E i \in Ids : updateOnePartial(p, i, [val |-> "b"])
       \/ \E i \in Ids, hard \in HardOptions : deleteOne(p, i, hard)
  \/ \E p \in SeqProcs : AnyStep(p)
  \/ DispatchBatch
  \/ PrimeSteps
  \/ initialize
SpecInit == Constructed /\ [][NextInit]_vars

\* one caller that awaits every call: queries that warm the loader and the
\* cache, identifier lookups before and after them, and writes of the caller
\* to the table outside of the data source
NextWarm ==
  \/ Budget /\ \E p \in SeqProcs :
       \/ \E i \in Ids, ttl \in Ttls : findOneById(p, i, ttl)
       \/ \E ids \in IdLists, ttl \in Ttls : findManyByIds(p, ids, ttl)
       \/ \E ttl \in Ttls, wd \in BOOLEAN : findManyWhere(p, "any", ttl, wd)
       \/ \E ttl \in Ttls, wd \in BOOLEAN : findManyByQuery(p, "any", ttl, wd)
  \/ \E p \in SeqProcs : LookupSteps(p) \/ ReturnFindMany(p)
  \/ DispatchBatch
  \/ PrimeSteps
  \/ \E i \in Ids : RepoUpdate(i, "b")
SpecWarm == Init /\ [][NextWarm]_vars

\* an entity class with one primary column or with several: a data source is
\* constructed for it, initialized, and used by one caller; the calls on a
\* data source that was constructed with something else than a repository
\* fail inside TypeORM and are left out
NextEntity ==
  \/ \E entity \in ConstructorArgs : construct(entity)
  \/ initialize
  \/ Budget /\ ds.constructed /\ isTypeormRepository(ds.entity) /\ \E p \in SeqProcs :
       \/ \E i \in Ids, ttl \in Ttls : findOneById(p, i, ttl)
       \/ \E ents \in RowLists(store) : primeLoader(p, ents, NoTtl)
       \/ \E ttl \in Ttls : findManyWhere(p, "any", ttl, FALSE)
       \/ \E ttl \in Ttls : createOne(p, [val |-> "b"], ttl)
       \/ \E i \in Ids : updateOne(p, Row(i, "b", NullDate))
       \/ \E i \in Ids : updateOnePartial(p, i, [val |-> "b"])
  \/ \E p \in SeqProcs :
       \/ LookupSteps(p)
       \/ ReturnFindMany(p)
       \/ ReturnCreateOne(p)
       \/ ReturnUpdateOne(p)
       \/ SaveUpdateOnePartial(p)
       \/ ReturnUpdateOnePartial(p)
  \/ DispatchBatch
  \/ PrimeSteps
SpecEntity == Declared /\ [][NextEntity]_vars

\* records with every kind of date value are written to the cache and looked
\* up, through the cache and through the loader
NextCodec ==
  \/ Budget /\ \E p \in SeqProcs, i \in Ids, ttl \in Ttls : findOneById(p, i, ttl)
  \/ \E p \in SeqProcs : LookupSteps(p)
  \/ DispatchBatch
  \/ \E i \in Ids : CacheWrite(i)
SpecCodec == CodecInit /\ [][NextCodec]_vars

\* the ordering step applied to every batch and every result of a multi-get
NextOrder == \E p \in SeqProcs : ApplyOrderDocs(p)
SpecOrder == OrderInit /\ [][NextOrder]_vars

\* one caller that awaits every call: lookups with every kind of ttl argument
\* (absent, 0, an integer, a number that is not an integer) over a cache whose
\* entries expire
AllTtls == {NoTtl, "0", "60", "1.5"}
NextTtl ==
  \/ Budget /\ \E p \in SeqProcs, i \in Ids, ttl \in AllTtls : findOneById(p, i, ttl)
  \/ \E p \in SeqProcs : LookupSteps(p)
  \/ DispatchBatch
  \/ \E k \in Keys : CacheExpire(k)
SpecTtl == Init /\ [][NextTtl]_vars

\* one caller that awaits every call: lookups and updates of live records
\* through the data source, over a cache whose entries expire
NextRefresh ==
  \/ Budget /\ \E p \in SeqProcs :
       \/ \E i \in Ids, ttl \in Ttls : findOneById(p, i, ttl)
       \/ \E i \in Ids : updateOne(p, Row(i, "b", NullDate))
       \/ \E i \in Ids : updateOnePartial(p, i, [val |-> "b"])
  \/ \E p \in SeqProcs :
       \/ LookupSteps(p)
       \/ ReturnUpdateOne(p)
       \/ SaveUpdateOnePartial(p)
       \/ ReturnUpdateOnePartial(p)
  \/ DispatchBatch
  \/ PrimeSteps
  \/ \E k \in Keys : CacheExpire(k)
SpecRefresh == Init /\ [][NextRefresh]_vars

\* one caller that awaits every call and creates and updates records through a
\* data source constructed for a declared entity class
NextCreate ==
  \/ construct(UserRepository)
  \/ initialize
  \/ Budget /\ \E p \in SeqProcs :
       \/ \E i \in Ids, ttl \in Ttls : findOneById(p, i, ttl)
       \/ \E input \in WrittenRows \cup NewInputs, ttl \in Ttls : createOne(p, input, ttl)
       \/ \E data \in WrittenRows : updateOne(p, data)
  \/ \E p \in SeqProcs :
       \/ LookupSteps(p)
       \/ ReturnCreateOne(p)
       \/ ReturnUpdateOne(p)
  \/ DispatchBatch
  \/ PrimeSteps
SpecCreate == Declared /\ [][NextCreate]_vars

\* one caller that awaits every call: lookups that fill memo and cache, and
\* filtered queries, over a table that other writers update
NextQuery ==
  \/ Budget /\ \E p \in SeqProcs :
       \/ \E i \in Ids : findOneById(p, i, "60")
       \/ \E where \in Wheres, ttl \in Ttls, wd \in BOOLEAN :
            findManyWhere(p, where, ttl, wd)
       \/ \E where \in Wheres, ttl \in Ttls, wd \in BOOLEAN :
            findManyByQuery(p, where, ttl, wd)
  \/ \E p \in SeqProcs : LookupSteps(p) \/ ReturnFindMany(p)
  \/ DispatchBatch
  \/ PrimeSteps
  \/ \E i \in Ids : RepoUpdate(i, "b")
SpecQuery == Init /\ [][NextQuery]_vars

\* callers that look records up, with and without ttl and without waiting for
\* each other, over a table whose findByIds can fail
NextFail ==
  \/ Budget /\ \E p \in Procs : \E i \in Ids, ttl \in Ttls : findOneById(p, i, ttl)
  \/ \E p \in Procs : LookupSteps(p)
  \/ DispatchBatch
  \/ failedDispatch
SpecFail == Init /\ [][NextFail]_vars

\* the calls made in a run whose termination is checked
MaxLiveOps == 2
LiveBudget == nops < MaxLiveOps

\* two callers that do not wait for each other: lookups, primes and clears over a
\* table whose findByIds answers or fails; the loader dispatches every batch
\* it has collected (its dispatch is scheduled when the batch is created) and
\* every cache call a lookup awaits completes
NextLive ==
  \/ LiveBudget /\ \E p \in SeqProcs :
       \/ \E i \in Ids : findOneById(p, i, "60")
       \/ \E ids \in IdLists : findManyByIds(p, ids, NoTtl)
  \/ LiveBudget /\ \E p \in Procs \ SeqProcs :
       \/ \E i \in Ids : findOneById(p, i, NoTtl)
       \/ \E i \in Ids : deleteFromCacheById(p, i)
       \/ \E i \in Ids : store[i] # Absent /\ primeLoader(p, <<store[i]>>, NoTtl)
  \/ \E p \in Procs : LookupSteps(p) \/ CacheDelete(p)
  \/ DispatchBatch
  \/ failedDispatch
  \/ PrimeSteps
SpecLive ==
  /\ Init /\ [][NextLive]_vars
  /\ WF_vars(failedDispatch \/ DispatchBatch)
  /\ \A p \in Procs : WF_vars(LookupSteps(p))

\* callers that do not wait for each other: lookups that cache a record, and
\* updates and partial updates that write either value of the data column
NextConcurrent ==
  \/ Budget /\ \E p \in Procs :
       \/ \E i \in Ids : findOneById(p, i, "60")
       \/ \E i \in Ids, v \in Vals : updateOne(p, Row(i, v, NullDate))
       \/ \E i \in Ids, v \in Vals : updateOnePartial(p, i, [val |-> v])
  \/ \E p \in Procs :
       \/ LookupSteps(p)
       \/ ReturnUpdateOne(p)
       \/ SaveUpdateOnePartial(p)
       \/ ReturnUpdateOnePartial(p)
  \/ DispatchBatch
  \/ PrimeSteps
SpecConcurrent == Init /\ [][NextConcurrent]_vars

\* data sources of several entity types writing to one cache
NextShared ==
  \/ \E n \in EntityNames, i \in SharedIds : SharedCacheSet(n, i)
  \/ \E n \in EntityNames, i \in SharedIds : SharedCacheDelete(n, i)
SpecShared == SharedInit /\ [][NextShared]_vars

(* ------------------------------ claims: lookups ------------------------- *)
\* the step in which item k of call p gets the answer of its cache.get
CacheGetStep(p, k) ==
  /\ IsLookup(proc[p])
  /\ k <= Len(proc[p].items)
  /\ proc[p].items[k].pc = "get"
  /\ proc'[p].items[k].pc # "get"

\* C2: while a cache entry for X exists, findOneById(X) returns the record
\* parsed from that entry without touching the loader or the table, whatever
\* the table holds for X by then.
C2_CacheHitBypassesLoader ==
  [][\A p \in Procs, k \in 1..MaxIds :
       (CacheGetStep(p, k) /\ cache[CacheKey(proc[p].items[k].id)] # Undefined)
       => /\ proc'[p].items[k].pc = "done"
          /\ proc'[p].items[k].src = "cache"
          /\ proc'[p].items[k].doc
               = Ok(EJSONParse(cache[CacheKey(proc[p].items[k].id)]))
          /\ proc[p].op = "findOneById" => proc'[p].res = proc'[p].items[k].doc
          /\ UNCHANGED <<memo, batch, store, cache>>]_vars

\* a findOneById answered from the cache after the row was changed in the table
C2_Witness ==
  \E p \in Procs :
    /\ proc[p].op = "findOneById" /\ proc[p].pc = "done"
    /\ proc[p].items[1].src = "cache"
    /\ proc[p].res.kind = "ok"
    /\ store[proc[p].items[1].id] # Absent
    /\ store[proc[p].items[1].id] # proc[p].res.val
    /\ cache[CacheKey(proc[p].items[1].id)] = EJSONStringify(proc[p].res.val)

\* C3: findManyByIds over identifiers of live records resolves with a list of
\* the same length whose i-th element is the record with primary key ids[i].
C3_ManyByIdsPositional ==
  \A p \in Procs :
    (/\ proc[p].op = "findManyByIds" /\ proc[p].returned
     /\ \A k \in 1..Len(proc[p].arg.ids) : IsLive(store, proc[p].arg.ids[k]))
    => /\ proc[p].res.kind = "ok"
       /\ Len(proc[p].res.val) = Len(proc[p].arg.ids)
       /\ \A k \in 1..Len(proc[p].arg.ids) : proc[p].res.val[k].id = proc[p].arg.ids[k]

\* C4: findManyByIds with an identifier that has no live record resolves with
\* an array holding the not-found error at that position and the records at
\* the others; the call is not rejected.
C4_ManyByIdsNotRejected ==
  \A p \in Procs :
    (/\ proc[p].op = "findManyByIds" /\ proc[p].returned /\ proc[p].alone
     /\ \E k \in 1..Len(proc[p].arg.ids) : ~IsLive(store, proc[p].arg.ids[k]))
    => /\ proc[p].res.kind = "ok"
       /\ \A k \in 1..Len(proc[p].arg.ids) :
            IF IsLive(store, proc[p].arg.ids[k])
            THEN proc[p].res.val[k].id = proc[p].arg.ids[k]
            ELSE proc[p].res.val[k] = NotFound

\* a findOneById that directly follows a deleteFromCacheById of the same
\* identifier, with no other call and no primeLoader running meanwhile
FollowsEviction(pr) ==
  /\ pr.op = "findOneById" /\ pr.pc = "done" /\ pr.alone
  /\ pr.after.op = "deleteFromCacheById"
  /\ pr.after.arg.id = pr.items[1].id
  /\ pr.after.quiet

TargetId(call) ==
  IF call.op = "updateOne" THEN call.arg.data.id ELSE call.arg.id

\* a findOneById of X that directly follows an updateOne or updateOnePartial
\* of the live record X, with no other call and no earlier primeLoader running
FollowsUpdate(pr) ==
  /\ pr.op = "findOneById" /\ pr.pc = "done" /\ pr.alone /\ pr.quiet
  /\ pr.after.op \in {"updateOne", "updateOnePartial"}
  /\ pr.after.quiet
  /\ TargetId(pr.after) = pr.items[1].id
  /\ pr.after.was # Absent /\ ~IsDeleted(pr.after.was)

\* C1: the findOneById(X) that follows a resolved updateOne or updateOnePartial
\* of an existing live record X returns the record as the table now holds it,
\* whatever the loader memo and the cache held for X before the update.
C1_FindAfterUpdateIsCurrent ==
  \A p \in Procs :
    (FollowsUpdate(proc[p]) /\ IsLive(store, proc[p].items[1].id))
    => proc[p].res = Ok(store[proc[p].items[1].id])

\* C8 (state part): a resolved updateOnePartial(X, p) returns the record stored
\* under X, with primary key X and the other fields of p applied.
UpdateOnePartialResult ==
  \A p \in Procs :
    (proc[p].op = "updateOnePartial" /\ proc[p].pc = "done" /\ proc[p].res.kind = "ok")
    => /\ proc[p].res.val.id = proc[p].arg.id
       /\ "val" \in DOMAIN proc[p].arg.data
            => proc[p].res.val.val = proc[p].arg.data.val
       /\ "val" \notin DOMAIN proc[p].arg.data
            => proc[p].res.val.val = proc[p].was.val
       /\ proc[p].alone => store[proc[p].arg.id] = proc[p].res.val

\* C8 (step part): the save of updateOnePartial(X, p) writes the record under
\* X only; no record is created or changed under another primary key.
UpdateOnePartialSave ==
  \A p \in Procs :
    (proc[p].pc = "updateOnePartial:save" /\ proc'[p].pc = "updateOnePartial:prime")
    => /\ store'[proc[p].arg.id] # Absent
       /\ store'[proc[p].arg.id].id = proc[p].arg.id
       /\ store'[proc[p].arg.id] = proc'[p].loc
       /\ \A j \in Ids \ {proc[p].arg.id} : store'[j] = store[j]

\* C8: updateOnePartial(X, p) stores and returns a record whose primary key is
\* X with the other fields of p applied, also when p carries another primary
\* key, and creates or changes no record under the key supplied in p.
C8_PartialUpdateKeepsId ==
  [](UpdateOnePartialResult) /\ [][UpdateOnePartialSave]_vars

\* a partial update of X whose payload names the other, unused primary key
C8_Witness ==
  \E p \in Procs :
    /\ proc[p].op = "updateOnePartial" /\ proc[p].pc = "done"
    /\ proc[p].res.kind = "ok"
    /\ idColumn \in DOMAIN proc[p].arg.data
    /\ proc[p].arg.data.id # proc[p].arg.id
    /\ store[proc[p].arg.data.id] = Absent
    /\ proc[p].res.val.id = proc[p].arg.id
    /\ proc[p].res.val.val # proc[p].was.val

(* ------------------------------ claims: deletions ----------------------- *)
\* a deleteOne that removed or marked its record and has resolved, with no
\* other call and no primeLoader running since it began
DeletedAlone(pr) ==
  /\ pr.op = "deleteOne" /\ pr.pc = "done" /\ pr.res.kind = "ok"
  /\ pr.alone /\ pr.quiet

\* a findOneById of X that directly follows such a deleteOne of X
FollowsDelete(pr) ==
  /\ pr.op = "findOneById" /\ pr.pc = "done" /\ pr.alone
  /\ pr.after.op = "deleteOne"
  /\ pr.after.was # Absent
  /\ pr.after.quiet
  /\ pr.after.arg.id = pr.items[1].id

\* C6: once deleteOne(X), hard or soft, has resolved with nothing else in
\* flight, the loader memo and the cache hold no entry for X, and the next
\* findOneById(X) fetches from the table and is rejected as not found.
C6_DeleteEvicts ==
  \A p \in Procs :
    /\ DeletedAlone(proc[p])
         => /\ memo[proc[p].arg.id] = NoEntry
            /\ cache[CacheKey(proc[p].arg.id)] = Undefined
    /\ FollowsDelete(proc[p])
         => /\ proc[p].items[1].src = "batch"
            /\ proc[p].res = NotFound

\* X was memoized and cached, then soft-deleted; the row is still in the
\* table and the lookup that follows is rejected
C6_Witness ==
  \E p \in Procs :
    /\ FollowsDelete(proc[p])
    /\ ~HardTruthy(proc[p].after.arg.hard)
    /\ store[proc[p].items[1].id] # Absent
    /\ proc[p].res = NotFound

\* the outcome of every call and of every primeLoader is in
AllFinished ==
  /\ \A p \in Procs : proc[p].pc \in {"idle", "done"}
  /\ BgFree
  /\ batch = <<>>

\* C7: when a deleteOne(X) and the calls that ran concurrently with it have
\* all finished and X is deleted, there is no cache entry and no loader memo
\* entry for X.
C7_NoEntryAfterConcurrentDelete ==
  \A p \in Procs :
    (/\ AllFinished
     /\ proc[p].op = "deleteOne" /\ proc[p].res.kind = "ok"
     /\ ~IsLive(store, proc[p].arg.id))
    => /\ cache[CacheKey(proc[p].arg.id)] = Undefined
       /\ memo[proc[p].arg.id] = NoEntry

\* the step in which deleteOne removes or marks its record
DeleteOneRemoves(p) ==
  /\ proc[p].pc = "deleteOne:remove"
  /\ proc'[p].pc = "deleteOne:clear"

\* C9: deleteOne(X) with hard false or left out keeps the row in the table
\* with its soft-delete field set, so that ordinary reads exclude it and a
\* read that includes deleted rows returns it; with hard true the row is
\* removed from the table.
C9_SoftKeepsHardRemoves ==
  [][\A p \in Procs :
       DeleteOneRemoves(p)
       => /\ \A j \in Ids \ {proc[p].arg.id} : store'[j] = store[j]
          /\ IF proc[p].arg.hard = "true"
             THEN /\ store'[proc[p].arg.id] = Absent
                  /\ \A r \in SeqRange(RepoFind(store', "any", TRUE)) :
                       r.id # proc[p].arg.id
             ELSE /\ store'[proc[p].arg.id] # Absent
                  /\ store'[proc[p].arg.id].deletedAt # NullDate
                  /\ store'[proc[p].arg.id].val = store[proc[p].arg.id].val
                  /\ RepoFindOne(store', proc[p].arg.id) = Absent
                  /\ RepoFindByIds(store', <<proc[p].arg.id>>) = <<>>
                  /\ \A r \in SeqRange(RepoFind(store', "any", FALSE)) :
                       r.id # proc[p].arg.id
                  /\ store'[proc[p].arg.id]
                       \in SeqRange(RepoFind(store', "any", TRUE))]_vars

\* a deleteOne called without the hard option has resolved and the row is
\* still in the table, marked as deleted
C9_Witness ==
  \E p \in Procs :
    /\ proc[p].op = "deleteOne" /\ proc[p].pc = "done" /\ proc[p].res.kind = "ok"
    /\ proc[p].arg.hard = NoHard
    /\ store[proc[p].arg.id] # Absent
    /\ IsDeleted(store[proc[p].arg.id])

(* ------------------------------ claims: priming ------------------------- *)
\* a call that hands records to primeLoader
PrimingOps ==
  {"primeLoader", "findManyWhere", "findManyByQuery", "createOne",
   "updateOne", "updateOnePartial"}

\* a priming call that ran alone and whose primeLoader has finished
PrimedAlone(pr) ==
  /\ pr.op \in PrimingOps /\ pr.pc = "done" /\ pr.res.kind = "ok"
  /\ pr.alone /\ pr.quiet
  /\ BgFree

\* a findOneById of X that directly follows a priming call whose records
\* held X with its soft-delete field populated
FollowsPrimingOfDeleted(pr) ==
  /\ pr.op = "findOneById" /\ pr.pc = "done" /\ pr.alone /\ pr.quiet
  /\ pr.after.op \in PrimingOps /\ pr.after.quiet
  /\ \E k \in 1..Len(pr.after.primed) :
       /\ pr.after.primed[k].id = pr.items[1].id
       /\ IsDeleted(pr.after.primed[k])

\* C5: priming never leaves a loader memo entry or a cache entry holding a
\* record whose soft-delete field is populated; the other records of the call
\* have a memo entry (and a cache entry when a ttl is given) afterwards; and
\* the findOneById of a soft-deleted identifier that follows is rejected as
\* not found.
C5_PrimingSkipsSoftDeleted ==
  /\ \A i \in Ids :
       /\ (memo[i].kind = "settled" /\ memo[i].val.kind = "ok")
            => ~IsDeleted(memo[i].val.val)
       /\ cache[CacheKey(i)] # Undefined
            => ~IsDeleted(EJSONParse(cache[CacheKey(i)]))
  /\ \A p \in Procs :
       /\ PrimedAlone(proc[p])
            => \A k \in 1..Len(proc[p].primed) :
                 ~IsDeleted(proc[p].primed[k])
                 => /\ memo[proc[p].primed[k].id] # NoEntry
                    /\ (proc[p].op \in {"primeLoader", "findManyWhere",
                                        "findManyByQuery", "createOne"}
                        /\ TtlTruthy(proc[p].arg.ttl))
                         => cache[CacheKey(proc[p].primed[k].id)] # Undefined
       /\ FollowsPrimingOfDeleted(proc[p]) => proc[p].res = NotFound

(* ------------------------------ claims: batching ------------------------ *)
\* the lookups that wait for the pending batch, as (caller, position) pairs
Waiting ==
  {w \in Procs \X (1..MaxIds) :
     /\ w[2] <= Len(proc[w[1]].items)
     /\ proc[w[1]].items[w[2]].pc = "wait"}

\* every waiting lookup and every pending promise has its own identifier at
\* its place in the argument of the coming findByIds
InPendingBatch ==
  /\ \A w \in Waiting :
       LET it == proc[w[1]].items[w[2]]
       IN it.idx \in 1..Len(batch) /\ batch[it.idx] = it.id
  /\ \A i \in Ids :
       memo[i].kind = "pending"
       => memo[i].idx \in 1..Len(batch) /\ batch[memo[i].idx] = i

\* the step that dispatches the batch: the one findByIds of the window
Dispatches == batch # <<>> /\ batch' = <<>>

\* a waiting lookup is served by the dispatch of its batch and by nothing
\* else, and gets what the table holds for its own identifier
ServedByOneFetch ==
  \A p \in Procs, k \in 1..MaxIds :
    (k <= Len(proc[p].items) /\ proc[p].items[k].pc = "wait")
    => /\ proc'[p].items[k].pc # "wait" => Dispatches
       /\ Dispatches
            => /\ proc'[p].items[k].pc # "wait"
               /\ proc'[p].items[k].doc
                    = IF IsLive(store, proc[p].items[k].id)
                      THEN Ok(store[proc[p].items[k].id]) ELSE NotFound

\* C11 (as stated): the lookups that reach the loader in one batch window wait
\* for one findByIds whose argument holds each pending identifier exactly once.
C11_EachIdOnceInBatch ==
  /\ InPendingBatch
  /\ \A a, b \in 1..Len(batch) : batch[a] = batch[b] => a = b

\* an identifier joins the batch only when the loader holds no promise for it
JoinsBatchOnlyUnmemoized ==
  Len(batch') > Len(batch) => memo[batch'[Len(batch')]] = NoEntry

\* C11 (amended): the lookups of one batch window are served by one findByIds
\* and each gets the result for its own identifier; the argument holds an
\* identifier once per load made while the loader had no promise for it, so
\* twice only if the identifier was evicted while its load was pending.
C11_OneFetchPerWindow ==
  /\ [](InPendingBatch)
  /\ [][ServedByOneFetch /\ JoinsBatchOnlyUnmemoized]_vars

\* two callers looked up the same identifier in one window: one load joined
\* the batch, the other the pending promise, and both got the same row
C11_Witness ==
  \E p, q \in Procs :
    /\ p # q
    /\ proc[p].op = "findOneById" /\ proc[p].pc = "done"
    /\ proc[q].op = "findOneById" /\ proc[q].pc = "done"
    /\ proc[p].items[1].id = proc[q].items[1].id
    /\ proc[p].items[1].src = "batch"
    /\ proc[q].items[1].src = "promise"
    /\ proc[p].res.kind = "ok"
    /\ proc[q].res = proc[p].res

(* ------------------------------ claims: initialization ------------------ *)
\* C12: as long as initialize has not been called, every call of a data
\* method has failed at once with 'DataSource not initialized': no call is
\* under way at a store or cache operation, and none ended in another way.
C12_FailsBeforeInitialize ==
  ~initialized
  => \A p \in Procs :
       proc[p].op # "none"
       => /\ proc[p].pc = "done"
          /\ proc[p].res = Rejected(NotInitializedMsg)

(* ------------------------------ claims: missing targets ----------------- *)
\* the step in which caller p makes a call
Calls(p) == nops' = nops + 1 /\ proc'[p] # Disturbed(proc[p])

LookupSetsWithTtl(key) ==
  \E p \in Procs, k \in 1..MaxIds :
    /\ IsLookup(proc[p])
    /\ k <= Len(proc[p].items)
    /\ proc[p].items[k].pc = "set"
    /\ proc'[p].items[k].pc = "done"
    /\ CacheKey(proc[p].items[k].id) = key
    /\ proc[p].arg.ttl # NoTtl

\* the cache.set of a primeLoader with a ttl writes key in this step
PrimeSetsWithTtl(key) ==
  \E b \in BgSlots :
    /\ bg[b].pc = "set"
    /\ bg'[b] # bg[b]
    /\ CacheKey(bg[b].ents[bg[b].i].id) = key
    /\ bg[b].ttl # NoTtl

\* C14: a key that is not in the cache comes into it only by the cache.set of
\* a call that was given a ttl; a call without ttl never adds a key.
C14_KeysGrowOnlyWithTtl ==
  [][\A key \in Keys :
       (cache[key] = Undefined /\ cache'[key] # Undefined)
       => LookupSetsWithTtl(key) \/ PrimeSetsWithTtl(key)]_vars

(* ------------------------------ claims: cache keys ----------------------- *)
\* C15: data sources of different entity types compute different cache keys,
\* whatever the identifiers, so what a data source finds under one of its
\* keys in the shared cache is a document of its own entity.
C15_KeysOfEntitiesDisjoint ==
  /\ \A n, m \in EntityNames, i, j \in SharedIds :
       n # m => KeyOf(n, i) # KeyOf(m, j)
  /\ \A n \in EntityNames, i \in SharedIds :
       cache[KeyOf(n, i)] # Undefined => cache[KeyOf(n, i)] = DocOf(n, i)

(* ------------------------------ claims: creation ------------------------- *)
\* a findOneById of the identifier of the record that the createOne made just
\* before it created, with the ttl of that createOne
FollowsCreate(pr) ==
  /\ pr.op = "findOneById" /\ pr.pc = "done" /\ pr.alone
  /\ pr.after.op = "createOne"
  /\ idColumn \notin DOMAIN pr.after.arg.data
  /\ pr.after.primed # <<>>
  /\ pr.items[1].id = pr.after.primed[1].id
  /\ pr.arg.ttl = pr.after.arg.ttl

\* C16: when createOne of an input without a primary key has resolved, the
\* loader memo holds the new record under its identifier, and the findOneById
\* of that identifier that follows returns the created record and is not
\* answered by a fetch from the store.
C16_CreatedThenFound ==
  \A p \in Procs :
    /\ ( /\ proc[p].op = "createOne" /\ proc[p].pc = "done" /\ proc[p].alone
         /\ idColumn \notin DOMAIN proc[p].arg.data
         /\ proc[p].res.kind = "ok" )
       => memo[proc[p].res.val.id] = Settled(Ok(proc[p].res.val))
    /\ FollowsCreate(proc[p])
       => /\ proc[p].res = Ok(proc[p].after.primed[1])
          /\ proc[p].items[1].src \in {"cache", "memo"}

(* ------------------------------ claims: warming -------------------------- *)
QueryOps == {"findManyWhere", "findManyByQuery"}
\* the rows of a list that are not soft-deleted
LiveOf(rows) == {rows[j] : j \in {k \in 1..Len(rows) : ~IsDeleted(rows[k])}}

\* a findManyByIds that follows a findManyWhere or findManyByQuery of the same
\* caller and asks for identifiers of rows it returned that are not
\* soft-deleted
FollowsQuery(pr) ==
  /\ pr.op = "findManyByIds" /\ pr.pc = "done" /\ pr.alone
  /\ pr.after.op \in QueryOps
  /\ \A k \in 1..Len(pr.arg.ids) :
       \E r \in LiveOf(pr.after.primed) : r.id = pr.arg.ids[k]

\* C17: when findManyWhere or findManyByQuery has resolved, every returned row
\* that is not soft-deleted is in the loader memo and, with a ttl, in the
\* cache; the findManyByIds of returned identifiers that follows resolves with
\* the returned rows, also when the table was written in between.
C17_QueryWarmsLookups ==
  \A p \in Procs :
    /\ ( /\ proc[p].op \in QueryOps /\ proc[p].pc = "done" /\ proc[p].alone )
       => \A r \in LiveOf(proc[p].res.val) :
            /\ memo[r.id] = Settled(Ok(r))
            /\ TtlTruthy(proc[p].arg.ttl) => cache[CacheKey(r.id)] = EJSONStringify(r)
    /\ FollowsQuery(proc[p])
       => /\ proc[p].res.kind = "ok"
          /\ \A k \in 1..Len(proc[p].arg.ids) :
               proc[p].res.val[k] \in LiveOf(proc[p].after.primed)

(* ------------------------------ claims: construction --------------------- *)
\* C18: no data source is ever constructed for an entity that declares more
\* than one primary column, so no call is ever made on a data source of such
\* an entity and its loader memo and cache stay empty.
C18_MultiKeyNeverConstructed ==
  ds.hasMultiplePrimaryKeys
  => /\ ~ds.constructed
     /\ \A p \in Procs : proc[p].op = "none"
     /\ \A i \in Ids : memo[i] = NoEntry /\ cache[CacheKey(i)] = Undefined

\* C19: the constructor throws 'TypeormDataSource must be created with a
\* TypeORM repository' when its argument is not a TypeORM repository, so every
\* data source that exists was constructed with a repository.
C19_ConstructedWithRepository ==
  ds.constructed => isTypeormRepository(ds.entity)

FollowsPrimeOfLive(pr) ==
  /\ pr.op = "findOneById" /\ pr.pc = "done" /\ pr.alone
  /\ pr.after.op = "primeLoader"
  /\ Len(pr.after.primed) = 1
  /\ ~IsDeleted(pr.after.primed[1])
  /\ pr.after.primed[1].id = pr.items[1].id
  /\ pr.items[1].src # "cache"

\* C21: when primeLoader(r) has returned for a live record r with identifier
\* X, the loader memo maps X to r, whatever the memo held for X before, and
\* the findOneById(X) that follows and misses the cache returns r from the
\* memo.
C21_PrimeReplacesMemoEntry ==
  \A p \in Procs :
    /\ ( /\ proc[p].op = "primeLoader" /\ proc[p].pc = "done" /\ proc[p].alone
         /\ proc[p].res.kind = "ok"
         /\ Len(proc[p].primed) = 1
         /\ ~IsDeleted(proc[p].primed[1]) )
       => memo[proc[p].primed[1].id] = Settled(Ok(proc[p].primed[1]))
    /\ FollowsPrimeOfLive(proc[p])
       => /\ proc[p].res = Ok(proc[p].after.primed[1])
          /\ proc[p].items[1].src = "memo"

\* the step is the loader.clear(X) of a deleteFromCacheById(X), called
\* directly or by deleteOne(X)
ClearsMemoOf(i) ==
  \E p \in Procs :
    \/ /\ nops' = nops + 1
       /\ proc'[p].op = "deleteFromCacheById" /\ proc'[p].arg.id = i
    \/ /\ proc[p].op = "deleteOne" /\ proc[p].pc = "deleteOne:clear"
       /\ proc'[p].pc = "cacheDelete" /\ proc[p].arg.id = i

\* C22: the loader memo holds for X nothing, a lookup in progress, or a record
\* with identifier X (never the outcome of a lookup that ended in not-found);
\* an entry comes into existence by a lookup or a prime of X and goes away only
\* by the loader.clear of deleteFromCacheById(X), called directly or by
\* deleteOne(X).
C22_MemoEntryLifecycle ==
  /\ [](\A i \in Ids :
          memo[i].kind = "settled"
          => memo[i].val.kind = "ok" /\ memo[i].val.val.id = i)
  /\ [][\A i \in Ids :
          /\ (memo[i] = NoEntry /\ memo'[i] # NoEntry)
             => \/ memo'[i].kind = "pending"
                \/ memo'[i].kind = "settled" /\ memo'[i].val.kind = "ok"
          /\ (memo[i] # NoEntry /\ memo'[i] = NoEntry) => ClearsMemoOf(i)]_vars

\* in this step the loader settles the lookup at position k of caller p with
\* a record
LoaderDelivers(p, k) ==
  /\ IsLookup(proc[p])
  /\ k <= Len(proc[p].items)
  /\ proc[p].items[k].pc = "wait"
  /\ proc'[p].items[k].pc # "wait"
  /\ proc'[p].items[k].doc.kind = "ok"

\* a memo entry that holds a record stays as it is unless the step is a
\* loader.clear of its identifier, and a lookup that reaches the loader while
\* the entry is there is answered from it and adds nothing to the batch
MemoServesUntilCleared ==
  /\ \A i \in Ids :
       (memo[i].kind = "settled" /\ memo[i].val.kind = "ok" /\ ~ClearsMemoOf(i))
       => memo'[i] = memo[i]
  /\ \A p \in Procs, k \in 1..MaxIds :
       ( /\ IsLookup(proc[p]) /\ k <= Len(proc[p].items)
         /\ proc[p].items[k].pc = "load"
         /\ proc'[p].items[k] # proc[p].items[k]
         /\ memo[proc[p].items[k].id].kind = "settled"
         /\ memo[proc[p].items[k].id].val.kind = "ok" )
       => /\ proc'[p].items[k].src = "memo"
          /\ proc'[p].items[k].doc = memo[proc[p].items[k].id].val
          /\ batch' = batch

\* C23 as stated: every findOneById(X) that succeeds through the loader leaves
\* the memo holding its record, the entry stays until a loader.clear of X, and
\* the lookups that reach the loader meanwhile are answered from it.
C23_MemoServesAfterSuccess ==
  [][/\ \A p \in Procs, k \in 1..MaxIds :
          LoaderDelivers(p, k)
          => memo'[proc[p].items[k].id] = Settled(proc'[p].items[k].doc)
     /\ MemoServesUntilCleared]_vars

\* C23 (amended): the same for a findOneById(X) during whose wait for the
\* batch no loader.clear of X took place, so that the memo still holds its
\* promise when the batch is dispatched.
C23_MemoServesUnlessClearedWhilePending ==
  [][/\ \A p \in Procs, k \in 1..MaxIds :
          ( /\ LoaderDelivers(p, k)
            /\ memo[proc[p].items[k].id].kind = "pending" )
          => memo'[proc[p].items[k].id] = Settled(proc'[p].items[k].doc)
     /\ MemoServesUntilCleared]_vars

\* a findOneById that missed the cache has been answered from the memo entry
\* that an earlier lookup left
C23_Witness ==
  \E p \in Procs :
    /\ proc[p].op = "findOneById" /\ proc[p].pc = "done"
    /\ proc[p].items[1].src = "memo"
    /\ proc[p].res.kind = "ok"
    /\ proc[p].arg.ttl = NoTtl
    /\ cache[CacheKey(proc[p].items[1].id)] = Undefined
    /\ memo[proc[p].items[1].id] = Settled(proc[p].res)

(* ------------------------------ claims: ordering ------------------------- *)
\* C24: the ordering step returns one result per requested identifier, in the
\* order of the request: the returned row whose primary key equals the
\* identifier if there is one, the not-found error otherwise, for every
\* identifier, 0 included.
C24_OrderDocsAligned ==
  \A p \in Procs :
    (proc[p].op = "orderDocs" /\ proc[p].pc = "done")
    => LET docs == proc[p].loc
           out == proc[p].res.val
       IN /\ Len(out) = Len(batch)
          /\ \A k \in 1..Len(batch) :
               /\ \A j \in 1..Len(docs) :
                    docs[j].id = batch[k] => out[k] = Ok(docs[j])
               /\ (\A j \in 1..Len(docs) : docs[j].id # batch[k])
                    => out[k] = NotFound

(* ------------------------------ claims: cache writes of lookups ---------- *)
IntegerTtls == {"0", "60"}

\* C25: a lookup that missed the cache goes on to cache.set exactly when the
\* loader gave it a record and its ttl is an integer, and that cache.set
\* stores the serialized record under the key of X and nothing else; every
\* other step of a lookup leaves the cache as it is, so that the cache never
\* holds anything but records under their own keys.
C25_LookupWritesCacheIffRecordAndIntegerTtl ==
  /\ [](\A i \in Ids :
          cache[CacheKey(i)] # Undefined
          => \E r \in AllRows : r.id = i /\ cache[CacheKey(i)] = EJSONStringify(r))
  /\ [][\A p \in Procs, k \in 1..MaxIds :
          ( /\ IsLookup(proc[p]) /\ k <= Len(proc[p].items)
            /\ proc'[p].items[k] # proc[p].items[k] )
          => LET it == proc[p].items[k]
                 it2 == proc'[p].items[k]
             IN /\ (it.pc \in {"load", "wait"} /\ it2.pc \in {"set", "done"})
                   => /\ it2.pc = "set"
                         <=> (it2.doc.kind = "ok" /\ proc[p].arg.ttl \in IntegerTtls)
                      /\ cache' = cache
                /\ it.pc = "set"
                   => cache' = [cache EXCEPT ![CacheKey(it.id)] = EJSONStringify(it.doc.val)]
                /\ it.pc \in {"get", "load", "wait"} => cache' = cache]_vars

\* a lookup with ttl 0 that missed the cache has written the record it got
\* from the loader, and a lookup with an integer ttl that found nothing has
\* left no entry
C25_Witness ==
  \E p \in Procs :
    /\ proc[p].op = "findOneById" /\ proc[p].pc = "done"
    /\ proc[p].arg.ttl = "0"
    /\ proc[p].items[1].src = "batch"
    /\ proc[p].res.kind = "ok"
    /\ cache[CacheKey(proc[p].items[1].id)] = EJSONStringify(proc[p].res.val)
    /\ \E j \in Ids : memo[j] = Settled(NotFound) /\ cache[CacheKey(j)] = Undefined

(* ------------------------------ claims: cache refresh -------------------- *)
\* a primeLoader without ttl that finds a cache entry for its record goes on
\* to cache.set, and its cache.set stores the serialization of the record
PrimeRefreshesEntry ==
  \A b \in BgSlots :
    (bg[b] # Free /\ bg'[b] # bg[b])
    => LET t == bg[b]
           key == CacheKey(t.ents[t.i].id)
       IN /\ (t.pc = "get" /\ cache[key] # Undefined)
             => bg'[b] = [t EXCEPT !.pc = "set"]
          /\ t.pc = "set" => cache'[key] = EJSONStringify(t.ents[t.i])

\* no call is running and every primeLoader has finished
AtRest == BgFree /\ \A p \in Procs : proc[p].pc \in {"idle", "done"}

\* C26: a primeLoader without ttl overwrites the cache entry that exists for
\* its record; with the table written through updateOne and updateOnePartial
\* only, a cache entry never holds another version of a record than the table
\* once the calls and their priming have finished.
C26_CacheFollowsUpdates ==
  /\ [][PrimeRefreshesEntry]_vars
  /\ [](AtRest => \A i \in Ids :
                    cache[CacheKey(i)] # Undefined
                    => EJSONParse(cache[CacheKey(i)]) = store[i])

(* ------------------------------ claims: createOne ------------------------ *)
\* the call that slot p starts in this step is a createOne
StartsCreateOne(p) == nops' = nops + 1 /\ proc'[p].op = "createOne"

\* what updateOne(data) does when it is called: the row is saved and the call
\* goes on to prime it
SavesLikeUpdateOne(p, data) ==
  /\ store' = RepoSave(store, data)
  /\ proc'[p].pc = "updateOne:prime"
  /\ proc'[p].loc = data
  /\ UNCHANGED <<memo, cache, bg>>

\* the call of slot p primes record r with ttl and returns r
PrimesAndReturns(p, r, ttl) ==
  LET ps == PrimeFrom(memo, <<r>>, 1, ttl)
  IN /\ proc'[p].res = Ok(r)
     /\ memo' = ps.memo
     /\ IF ps.task = Free THEN bg' = bg
        ELSE \E b \in BgSlots : bg[b] = Free /\ bg' = [bg EXCEPT ![b] = ps.task]
     /\ UNCHANGED <<store, cache>>

CreateOneDelegates(p) ==
  /\ StartsCreateOne(p)
     => LET input == proc'[p].arg.data
        IN IF idColumn \in DOMAIN input
           THEN SavesLikeUpdateOne(p, input)
           ELSE /\ \E i \in {j \in Ids : store[j] = Absent} :
                     /\ store' = RepoSave(store, RepoCreate(input, i))
                     /\ proc'[p].loc = RepoCreate(input, i)
                /\ proc'[p].pc = "createOne:prime"
                /\ UNCHANGED <<memo, cache, bg>>
  /\ (proc[p].op = "createOne" /\ initialized /\ proc'[p] # proc[p]
      /\ proc[p].pc \in {"updateOne:prime", "createOne:prime"})
     => PrimesAndReturns(p, proc[p].loc,
                         IF idColumn \in DOMAIN proc[p].arg.data
                         THEN NoTtl ELSE proc[p].arg.ttl)

\* C27: createOne with an input that carries the primary key saves, primes
\* (without ttl) and returns as updateOne of that input does; with an input
\* without primary key it saves a new record, primes it with the ttl of the
\* call and returns it.
C27_CreateOneIsUpdateOneForKeyedInput ==
  [][\A p \in SeqProcs : CreateOneDelegates(p)]_vars

(* ------------------------------ claims: visibility sequence -------------- *)
\* slot p starts deleteOne(i, {hard: true}) directly after its deleteOne(i)
\* resolved and left record i soft-deleted in the table
HardDeleteFollowsSoftDelete(p, i) ==
  /\ proc[p].op = "deleteOne" /\ proc[p].pc = "done"
  /\ proc[p].arg.id = i /\ ~HardTruthy(proc[p].arg.hard)
  /\ proc[p].res.kind = "ok"
  /\ store[i] # Absent /\ IsDeleted(store[i])
  /\ nops' = nops + 1
  /\ proc'[p].op = "deleteOne" /\ proc'[p].arg.id = i /\ HardTruthy(proc'[p].arg.hard)

\* C28: a deleteOne(X, {hard: true}) that follows the deleteOne(X) which
\* soft-deleted X is not rejected: it goes on to remove the record, and its
\* remove leaves no row X in the table.
C28_SoftDeletedCanBeHardDeleted ==
  [][\A p \in SeqProcs :
       /\ \A i \in Ids : HardDeleteFollowsSoftDelete(p, i)
                         => proc'[p].pc = "deleteOne:remove"
       /\ (proc[p].pc = "deleteOne:remove" /\ HardTruthy(proc[p].arg.hard)
           /\ proc'[p] # proc[p])
          => store'[proc[p].arg.id] = Absent]_vars

(* ------------------------------ claims: queries -------------------------- *)
\* the call that slot p starts in this step is a findManyWhere or
\* findManyByQuery
StartsQuery(p) == nops' = nops + 1 /\ proc'[p].op \in QueryOps

\* C29: findManyWhere and findManyByQuery fetch the rows the table returns for
\* their filter when they are called, whatever memo and cache hold, and
\* resolve with exactly these rows in the table's order; the call has no step
\* that reads the cache and it changes neither memo nor cache before it
\* hands the rows to primeLoader.
C29_QueryReturnsStoreRows ==
  /\ [](\A p \in SeqProcs :
          proc[p].op \in QueryOps => proc[p].pc \in {"findMany:prime", "done"})
  /\ [][\A p \in SeqProcs :
          /\ StartsQuery(p)
             => /\ proc'[p].loc = RepoFind(store, proc'[p].arg.where,
                                           proc'[p].arg.withDeleted)
                /\ proc'[p].pc = "findMany:prime"
                /\ UNCHANGED <<store, memo, cache, bg>>
          /\ (proc[p].op \in QueryOps /\ proc[p].pc = "findMany:prime"
              /\ proc'[p] # proc[p])
             => /\ proc'[p].res = Ok(proc[p].loc)
                /\ UNCHANGED <<store, cache>>]_vars

\* a query has resolved with a row of which memo and cache hold another version
C29_Witness ==
  \E p \in SeqProcs :
    /\ proc[p].op \in QueryOps /\ proc[p].pc = "done" /\ proc[p].res.kind = "ok"
    /\ \E k \in 1..Len(proc[p].res.val) :
         LET r == proc[p].res.val[k]
         IN /\ r = store[r.id]
            /\ memo[r.id].kind = "settled" /\ memo[r.id].val.kind = "ok"
            /\ memo[r.id].val.val # r
            /\ cache[CacheKey(r.id)] # Undefined
            /\ EJSONParse(cache[CacheKey(r.id)]) # r

(* ------------------------------ claims: a failing multi-get -------------- *)
\* what a failing batch leaves: every lookup that waited for it has thrown
\* the table's error, the cache is as it was, and the loader holds no entry
\* for any identifier of the batch
BatchFailureEffect ==
  /\ \A p \in Procs :
       IsLookup(proc[p])
       => \A k \in 1..Len(proc[p].items) :
            proc[p].items[k].pc = "wait"
            => /\ proc'[p].items[k].pc = "done"
               /\ proc'[p].items[k].doc = Rejected(StoreError)
               /\ proc'[p].pc = "done"
               /\ proc'[p].res = Rejected(StoreError)
  /\ cache' = cache
  /\ \A k \in 1..Len(batch) : memo'[batch[k]] = NoEntry

\* C30: when the findByIds of a batch fails, every findOneById waiting on the
\* batch is rejected with that error, the cache is not written (then or
\* later: a rejected lookup never goes on to cache.set), no memo entry
\* remains for the identifiers of the batch, and a lookup that finds no memo
\* entry joins a new batch for the table.
C30_BatchFailureRejectsAndForgets ==
  /\ [][failedDispatch => BatchFailureEffect]_vars
  /\ [](\A p \in Procs :
          IsLookup(proc[p]) \/ proc[p].op = "findOneById"
          => \A k \in 1..Len(proc[p].items) :
               proc[p].items[k].doc.kind = "rejected" => proc[p].items[k].pc = "done")
  /\ [][\A p \in Procs :
          IsLookup(proc[p])
          => \A k \in 1..Len(proc[p].items) :
               (proc[p].items[k].pc = "load" /\ memo[proc[p].items[k].id].kind = "none"
                /\ proc'[p].items[k] # proc[p].items[k])
               => batch' = Append(batch, proc[p].items[k].id)]_vars

\* two callers waited for the same batch with a ttl, both were rejected with
\* the table's error, and neither memo nor cache holds anything for the record
C30_Witness ==
  \E i \in Ids :
    /\ \A p \in Procs :
         /\ proc[p].op = "findOneById" /\ proc[p].pc = "done"
         /\ proc[p].arg = [ids |-> <<i>>, ttl |-> "60"]
         /\ proc[p].res = Rejected(StoreError)
    /\ memo[i] = NoEntry
    /\ cache[CacheKey(i)] = Undefined
    /\ store[i] # Absent

(* ------------------------------ claims: termination ---------------------- *)
LookupOps == {"findOneById", "findManyByIds"}

\* C31: every findOneById and findManyByIds call that has been made
\* eventually has resolved or rejected with all its lookups finished, whatever
\* lookups, primes and clears of other callers are interleaved with it.
C31_LookupsTerminate ==
  \A p \in Procs :
    (proc[p].op \in LookupOps /\ proc[p].pc = "run")
    ~> (proc[p].op \in LookupOps /\ proc[p].pc = "done" /\ proc[p].returned)

\* a lookup has resolved from its batch although another caller cleared its
\* key in the loader while the batch was pending
C31_Witness ==
  \E p \in Procs, q \in Procs :
    /\ proc[p].op = "findOneById" /\ proc[p].pc = "done" /\ proc[p].returned
    /\ proc[p].items[1].src = "batch"
    /\ proc[q].op = "deleteFromCacheById"
    /\ proc[q].arg.id = proc[p].arg.ids[1]
    /\ proc[q].was.memo.kind = "pending"

(* ------------------------------ claims: concurrent updates --------------- *)
UpdateOps == {"updateOne", "updateOnePartial"}
\* the identifier an update call writes
UpdatedId(pr) == IF pr.op = "updateOne" THEN pr.arg.data.id ELSE pr.arg.id

\* updates of record i by callers that did not wait for each other have all
\* resolved, and the priming they started has finished
ConcurrentUpdatesDone(i) ==
  /\ BgFree
  /\ \A p \in Procs :
       /\ proc[p].op \in UpdateOps /\ proc[p].pc = "done"
       /\ proc[p].res.kind = "ok"
       /\ UpdatedId(proc[p]) = i
       /\ ~proc[p].alone

\* C32: once concurrent updateOne / updateOnePartial calls on a cached record X
\* have resolved and their priming has finished, the cache entry for X is the
\* serialization of the record the table holds.
C32_CacheMatchesStoreAfterConcurrentUpdates ==
  \A i \in Ids :
    (ConcurrentUpdatesDone(i) /\ cache[CacheKey(i)] # Undefined)
    => EJSONParse(cache[CacheKey(i)]) = store[i]

(* ------------------------------ claims: keys and records ----------------- *)
\* the cache entry under the key of identifier i is the serialization of a
\* record whose primary key, as a string, is the suffix of that key
EntryHoldsOwnRecord(i) ==
  LET r == EJSONParse(cache[CacheKey(i)])
  IN /\ EJSONStringify(r) = cache[CacheKey(i)]
     /\ IdToString(r.id) = IdToString(i)

\* C33: every cache entry is the serialization of a record whose stringified
\* primary key ends its key, and every resolved memo entry of the loader holds
\* a record whose primary key is the identifier it is stored under.
C33_EntriesHoldOwnRecord ==
  \A i \in Ids :
    /\ cache[CacheKey(i)] # Undefined => EntryHoldsOwnRecord(i)
    /\ (memo[i].kind = "settled" /\ memo[i].val.kind = "ok") => memo[i].val.val.id = i

\* a findManyByIds that asked for the identifiers in another order than the
\* table returns its rows has resolved from its batch, and memo and cache hold
\* an entry for both records
C33_Witness ==
  \E p \in SeqProcs :
    /\ proc[p].op = "findManyByIds" /\ proc[p].pc = "done"
    /\ proc[p].arg = [ids |-> <<2, 1>>, ttl |-> "60"]
    /\ \A k \in 1..2 : proc[p].items[k].src = "batch"
    /\ \A i \in Ids : /\ memo[i].kind = "settled" /\ memo[i].val.kind = "ok"
                      /\ cache[CacheKey(i)] # Undefined

====
